---- MODULE Spec2Model ----
(***************************************************************************)
(* A model of vcHMM: the realignment pipeline (get_cigar .. update_ref),   *)
(* the transition matrix builder, the emission matrix builder, the         *)
(* segmented Viterbi decoder, the genotype resolver and the variant        *)
(* formatter.                                                              *)
(*                                                                         *)
(* Representation.                                                         *)
(*   - a Python string / list is a TLA+ sequence (index k in Python is     *)
(*     index k+1 here); a base is one of "A","C","G","T","N","-";          *)
(*   - a read [start, name, seq, cigar, mapq, qual] is a record;           *)
(*   - a read name is a sequence of character codes, so that appending     *)
(*     'b' and Python's string order can both be computed;                 *)
(*   - the quality placeholder '-' is the number GapQual;                  *)
(*   - a float is an exact rational <<n, d>> in lowest terms, d > 0.       *)
(***************************************************************************)
EXTENDS Integers, Sequences, FiniteSets, TLC

VARIABLES
    pc,              \* position in main(): which call comes next
    ref_seq,         \* the ungapped reference
    sam,             \* reads as read from the alignment file (sorted)
    newsam,          \* reads after get_cigar
    insertions,      \* insertion list returned by get_cigar
    unique_inserts,  \* dict returned by del_duplicate_ins
    upd_inserts,     \* dict returned by update_insertions
    upd_sam,         \* reads after update_startpos
    updated_sam,     \* reads after update_reads
    updated_refseq,  \* the gapped reference
    pre_transition_matrix,  \* the 4x4 class matrix
    hetrate,                \* the heterozygosity rate
    trans_matrix,           \* the 30x30 matrix of create_transition_matrix
    em_inputs,            \* the emission sequences handed to viterbi, in turn
    vit_call,             \* which of them the running call of viterbi decodes
    emission_matrix,      \* viterbi: its first argument (changed in place)
    transmission_matrix,  \* viterbi: its second argument
    delta,                \* viterbi: the list delta
    vit_i,                \* viterbi: the loop index i of the running loop
    xtilde,               \* viterbi: the list xtilde
    vit_results,          \* what each call of viterbi returned or raised
    ref,           \* create_variant_calling_output: the ungapped reference
    upd_ref,       \* find_base_state, formatter: the gapped reference
    vc_xtilde,     \* find_base_state, formatter: the decoded states
    base_states,   \* the list find_base_state returns
    vc_i,          \* formatter: the loop index i
    gap_counter,   \* formatter: gap_counter
    variants,      \* formatter: the text in variants
    variant_list,  \* formatter: variant_list
    vc_error,      \* formatter: the exception that ended it, or "none"
    upd_sam_em,     \* build_emissionmatrix: its argument upd_sam
    upd_reference,  \* build_emissionmatrix: its argument upd_reference
    em_i,           \* build_emissionmatrix: the loop index i
    pileup,         \* build_emissionmatrix: pileup of the last column
    pileup_qual,    \* build_emissionmatrix: pileup_qual as the emissions of
                    \* the last column read it
    em_vector,      \* build_emissionmatrix: vector, Unbound before the first
                    \* assignment
    ematrix         \* build_emissionmatrix: ematrix

pipeVars == <<ref_seq, sam, newsam, insertions, unique_inserts, upd_inserts,
              upd_sam, updated_sam, updated_refseq>>
transVars == <<pre_transition_matrix, hetrate, trans_matrix>>

vitVars == <<em_inputs, vit_call, emission_matrix, transmission_matrix, delta,
             vit_i, xtilde, vit_results>>

vcVars == <<ref, upd_ref, vc_xtilde, base_states, vc_i, gap_counter, variants,
            variant_list, vc_error>>

emVars == <<upd_sam_em, upd_reference, em_i, pileup, pileup_qual, em_vector,
           ematrix>>

vars == <<pc, pipeVars, transVars, vitVars, vcVars, emVars>>

\* The variables of the components a specification does not run.
nonPipeVars == <<transVars, vitVars, vcVars, emVars>>
nonTransVars == <<pipeVars, vitVars, vcVars, emVars>>
nonVitVars == <<pipeVars, transVars, vcVars, emVars>>
nonVcVars == <<pipeVars, transVars, vitVars, emVars>>
nonEmVars == <<pipeVars, transVars, vitVars, vcVars>>

\* A component that is not run holds nothing.
PipeIdle ==
    /\ ref_seq = <<>> /\ sam = <<>> /\ newsam = <<>> /\ insertions = <<>>
    /\ unique_inserts = <<>> /\ upd_inserts = <<>> /\ upd_sam = <<>>
    /\ updated_sam = <<>> /\ updated_refseq = <<>>
TransIdle ==
    /\ pre_transition_matrix = <<>> /\ hetrate = <<>> /\ trans_matrix = <<>>
VitIdle ==
    /\ em_inputs = <<>> /\ vit_call = <<>> /\ emission_matrix = <<>>
    /\ transmission_matrix = <<>> /\ delta = <<>> /\ vit_i = <<>>
    /\ xtilde = <<>> /\ vit_results = <<>>

VcIdle ==
    /\ ref = <<>> /\ upd_ref = <<>> /\ vc_xtilde = <<>> /\ base_states = <<>>
    /\ vc_i = <<>> /\ gap_counter = <<>> /\ variants = <<>>
    /\ variant_list = <<>> /\ vc_error = <<>>

EmIdle ==
    /\ upd_sam_em = <<>> /\ upd_reference = <<>> /\ em_i = <<>>
    /\ pileup = <<>> /\ pileup_qual = <<>> /\ em_vector = <<>>
    /\ ematrix = <<>>

NonPipeIdle == TransIdle /\ VitIdle /\ VcIdle /\ EmIdle
NonTransIdle == PipeIdle /\ VitIdle /\ VcIdle /\ EmIdle
NonVitIdle == PipeIdle /\ TransIdle /\ VcIdle /\ EmIdle
NonVcIdle == PipeIdle /\ TransIdle /\ VitIdle /\ EmIdle
NonEmIdle == PipeIdle /\ TransIdle /\ VitIdle /\ VcIdle

----------------------------------------------------------------------------
(* Bounds of the model.                                                    *)

MaxReads == 2
MaxStart == 2
ClassDen == 2      \* class probabilities are multiples of 1/ClassDen
HetDen == 2        \* heterozygosity rates are multiples of 1/HetDen

----------------------------------------------------------------------------
(* Python helpers.                                                         *)

Min2(a, b) == IF a < b THEN a ELSE b
Max2(a, b) == IF a > b THEN a ELSE b

\* Python's slice bound: a negative bound counts from the end, and every
\* bound is clamped to 0..len.
PyBound(s, k) == IF k < 0 THEN Max2(0, Len(s) + k) ELSE Min2(k, Len(s))
\* s[:k]
PyTake(s, k) == SubSeq(s, 1, PyBound(s, k))
\* s[k:]
PyDrop(s, k) == SubSeq(s, PyBound(s, k) + 1, Len(s))
\* n * [x]
Rep(x, n) == [i \in 1..n |-> x]
\* s.count(x)
Count(s, x) == Cardinality({i \in DOMAIN s : s[i] = x})
\* s[:k] + n * [x] + s[k:]
Splice(s, k, x, n) == PyTake(s, k) \o Rep(x, n) \o PyDrop(s, k)

RECURSIVE SumSeq(_)
SumSeq(s) == IF s = <<>> THEN 0 ELSE s[1] + SumSeq(Tail(s))

\* Python's order on lists of integers (lexicographic, a prefix is smaller).
RECURSIVE LexLt(_, _)
LexLt(a, b) ==
    IF b = <<>> THEN FALSE
    ELSE IF a = <<>> THEN TRUE
    ELSE IF a[1] # b[1] THEN a[1] < b[1]
    ELSE LexLt(Tail(a), Tail(b))

----------------------------------------------------------------------------
(* Encodings of the program's literals.                                    *)

GapQual == -1      \* the '-' stored in a quality list
SuffixB == 98      \* the character 'b' appended to a colliding read name
OpMatch == 0
OpIns == 1
OpDel == 2
OpSoft == 4
OpHard == 5
\* read[3] is None: an unmapped read
NoCigar == <<<<-1, 0>>>>

----------------------------------------------------------------------------
(* get_cigar                                                               *)

\* One iteration of "for operation in read[3]" on the loop's locals st.
\* The loop iterates over the list read[3] held when the loop started; the
\* rebinding of read inside the loop does not change what is iterated.
CigarOp(st, op) ==
    LET r == st.read
        n == op[2]
        body ==
          IF op[1] = OpSoft THEN
              IF st.soft_at_beginning THEN
                  [st EXCEPT !.soft_at_beginning = FALSE,
                             !.read = [r EXCEPT !.start = r.start + n,
                                                !.seq = PyDrop(r.seq, n),
                                                !.cigar = PyDrop(r.cigar, 1)]]
              ELSE
                  [st EXCEPT !.read = [r EXCEPT !.seq = PyTake(r.seq, 0 - n),
                                                !.cigar = PyTake(r.cigar, -1)]]
          ELSE IF op[1] = OpHard THEN
              IF st.hard_at_beginning THEN
                  [st EXCEPT !.hard_at_beginning = FALSE,
                             !.read = [r EXCEPT !.cigar = PyDrop(r.cigar, 1)]]
              ELSE
                  [st EXCEPT !.read = [r EXCEPT !.cigar = PyTake(r.cigar, -1)]]
          ELSE IF op[1] = OpIns THEN
              LET known == \E i \in DOMAIN st.readnames : st.readnames[i] = r.name
                  nm == IF known THEN Append(r.name, SuffixB) ELSE r.name
                  r2 == [r EXCEPT !.name = nm]
              IN  IF st.same_read THEN
                      [st EXCEPT !.read = r2,
                                 !.same_read = FALSE,
                                 !.nr_insertions = n,
                                 !.insertions = Append(st.insertions,
                                      [coord |-> r2.start + st.pos, len |-> n, name |-> nm])]
                  ELSE
                      [st EXCEPT !.read = r2,
                                 !.insertions = Append(st.insertions,
                                      [coord |-> r2.start + st.pos - st.nr_insertions,
                                       len |-> n, name |-> nm])]
          ELSE IF op[1] = OpDel THEN
              LET gaps_before == Count(PyTake(r.seq, st.pos), "-")
              IN  [st EXCEPT !.read = [r EXCEPT
                        !.seq = Splice(r.seq, st.pos + gaps_before, "-", n),
                        !.qual = Splice(r.qual, st.pos + gaps_before, GapQual, n)]]
          ELSE st
    IN  [body EXCEPT !.pos = st.pos + n]

RECURSIVE CigarOps(_, _)
CigarOps(st, ops) ==
    IF ops = <<>> THEN st ELSE CigarOps(CigarOp(st, ops[1]), Tail(ops))

\* One iteration of "for read in sam" on the accumulators acc.
CigarRead(acc, read) ==
    IF read.cigar = NoCigar THEN acc
    ELSE LET st == CigarOps([read |-> read,
                             soft_at_beginning |-> TRUE,
                             hard_at_beginning |-> TRUE,
                             same_read |-> TRUE,
                             nr_insertions |-> 0,
                             pos |-> 0,
                             insertions |-> acc.insertions,
                             readnames |-> acc.readnames], read.cigar)
         IN  [newsam |-> Append(acc.newsam, st.read),
              insertions |-> st.insertions,
              readnames |-> Append(acc.readnames, st.read.name)]

RECURSIVE CigarReads(_, _)
CigarReads(acc, reads) ==
    IF reads = <<>> THEN acc ELSE CigarReads(CigarRead(acc, reads[1]), Tail(reads))

get_cigar(s) ==
    CigarReads([newsam |-> <<>>, insertions |-> <<>>, readnames |-> <<>>], s)

----------------------------------------------------------------------------
(* del_duplicate_ins                                                       *)

\* Python's order on the lists [coordinate, length, name].
InsLt(a, b) ==
    IF a.coord # b.coord THEN a.coord < b.coord
    ELSE IF a.len # b.len THEN a.len < b.len
    ELSE LexLt(a.name, b.name)

RECURSIVE InsertSorted(_, _)
InsertSorted(x, s) ==
    IF s = <<>> THEN <<x>>
    ELSE IF InsLt(x, s[1]) THEN <<x>> \o s
    ELSE <<s[1]>> \o InsertSorted(x, Tail(s))

\* sorted(insertions)
RECURSIVE Sorted(_)
Sorted(s) == IF s = <<>> THEN <<>> ELSE InsertSorted(s[Len(s)], Sorted(SubSeq(s, 1, Len(s) - 1)))

\* A dict is the sequence of its items [key, val] in insertion order.
DictHas(d, k) == \E i \in DOMAIN d : d[i].key = k
DictGet(d, k) == d[CHOOSE i \in DOMAIN d : d[i].key = k].val
\* d[k] = v
DictSet(d, k, v) ==
    IF DictHas(d, k)
    THEN [i \in DOMAIN d |-> IF d[i].key = k THEN [key |-> k, val |-> v] ELSE d[i]]
    ELSE Append(d, [key |-> k, val |-> v])

RECURSIVE DelDup(_, _)
DelDup(d, s) ==
    IF s = <<>> THEN d
    ELSE LET k == <<s[1].coord, s[1].len>>
         IN  IF DictHas(d, k)
             THEN DelDup(DictSet(d, k, Append(DictGet(d, k), s[1].name)), Tail(s))
             ELSE DelDup(DictSet(d, k, <<s[1].name>>), Tail(s))

del_duplicate_ins(ins) == DelDup(<<>>, Sorted(ins))

----------------------------------------------------------------------------
(* update_insertions                                                       *)

RECURSIVE UpdIns(_, _, _)
UpdIns(out, temp, d) ==
    IF d = <<>> THEN out
    ELSE LET k == <<d[1].key[1] + temp, d[1].key[2]>>
         IN  UpdIns(DictSet(out, k, d[1].val), temp + d[1].key[2], Tail(d))

update_insertions(d) == UpdIns(<<>>, 0, d)

----------------------------------------------------------------------------
(* update_startpos                                                         *)

\* A read starting at an event's coordinate is shifted too.
StartAfterOrAt(start, coord) == start >= coord

\* The comparison of a read's start with an event's coordinate.
StartAfter(start, coord) == start > coord

RECURSIVE StartposRead(_, _)
StartposRead(read, d) ==
    IF d = <<>> THEN read
    ELSE IF StartAfter(read.start, d[1].key[1])
         THEN StartposRead([read EXCEPT !.start = read.start + d[1].key[2]], Tail(d))
         ELSE StartposRead(read, Tail(d))

update_startpos(s, d) == [i \in DOMAIN s |-> StartposRead(s[i], d)]

----------------------------------------------------------------------------
(* update_reads                                                            *)

NameIn(name, names) == \E i \in DOMAIN names : names[i] = name

\* The condition under which an event's gap run is spliced into a read.
ReadsTakesGap(read, item) ==
    /\ ~ NameIn(read.name, item.val)
    /\ item.key[1] >= read.start
    /\ item.key[1] - read.start <= Len(read.seq)

RECURSIVE ReadsRead(_, _)
ReadsRead(read, d) ==
    IF d = <<>> THEN read
    ELSE IF ReadsTakesGap(read, d[1])
         THEN LET off == d[1].key[1] - read.start
                  gaps_before == Count(PyTake(read.seq, off), "-")
              IN  ReadsRead([read EXCEPT
                        !.seq = Splice(read.seq, off + gaps_before, "-", d[1].key[2]),
                        !.qual = Splice(read.qual, off + gaps_before, GapQual, d[1].key[2])],
                     Tail(d))
         ELSE ReadsRead(read, Tail(d))

update_reads(s, d) == [i \in DOMAIN s |-> ReadsRead(s[i], d)]

----------------------------------------------------------------------------
(* update_ref                                                              *)

RECURSIVE update_ref(_, _)
update_ref(r, d) ==
    IF d = <<>> THEN r
    ELSE update_ref(Splice(r, d[1].key[1], "-", d[1].key[2]), Tail(d))

----------------------------------------------------------------------------
(* Inputs of the realignment pipeline.                                     *)

BaseAt(i) == <<"A", "C", "G", "T">>[((i - 1) % 4) + 1]
Bases(n) == [i \in 1..n |-> BaseAt(i)]

\* Number of read bases an operation list consumes (match, insertion,
\* soft-clip); the stored sequence of an aligned read has this length.
RECURSIVE QueryLen(_)
QueryLen(ops) ==
    IF ops = <<>> THEN 0
    ELSE (IF ops[1][1] \in {OpMatch, OpIns, OpSoft} THEN ops[1][2] ELSE 0)
         + QueryLen(Tail(ops))

MkRead(start, id, ops) ==
    LET n == IF ops = NoCigar THEN 3 ELSE QueryLen(ops)
    IN  [start |-> start, name |-> <<id>>, seq |-> Bases(n), cigar |-> ops,
         mapq |-> 60, qual |-> [i \in 1..n |-> 10 + i]]

OpLists ==
    << << <<OpMatch, 3>> >>,
       << <<OpMatch, 1>>, <<OpIns, 1>>, <<OpMatch, 2>> >>,
       << <<OpMatch, 2>>, <<OpIns, 2>>, <<OpMatch, 1>> >>,
       << <<OpMatch, 1>>, <<OpDel, 1>>, <<OpMatch, 2>> >>,
       << <<OpSoft, 1>>, <<OpMatch, 3>> >>,
       << <<OpHard, 1>>, <<OpMatch, 2>>, <<OpSoft, 1>> >>,
       NoCigar >>

\* The operation list as Python compares it: tuple by tuple.
RECURSIVE FlatOps(_)
FlatOps(ops) == IF ops = <<>> THEN <<>> ELSE ops[1] \o FlatOps(Tail(ops))

\* sam.sort() compares two records [start, name, sequence, cigartuples,
\* mapq, qualities] field by field.  Of two reads built by MkRead with equal
\* start and name the one with the shorter sequence is smaller (it is a
\* prefix), and with equal sequences the operation lists decide; mapq and
\* qualities are then equal.  Comparing a list with None raises TypeError:
\* such reads are in no order.
ReadLe(a, b) ==
    IF a.start # b.start THEN a.start < b.start
    ELSE IF a.name # b.name THEN LexLt(a.name, b.name)
    ELSE IF Len(a.seq) # Len(b.seq) THEN Len(a.seq) < Len(b.seq)
    ELSE IF a.cigar = NoCigar \/ b.cigar = NoCigar THEN a.cigar = b.cigar
    ELSE ~ LexLt(FlatOps(b.cigar), FlatOps(a.cigar))

\* The lists sam.sort() leaves as they are.
SortedSam(s) == \A i \in 1..(Len(s) - 1) : ReadLe(s[i], s[i + 1])

\* Reads come sorted (get_sam sorts them), so by start first.
NonDecStarts(n) ==
    {st \in [1..n -> 0..MaxStart] : \A i \in 1..(n - 1) : st[i] <= st[i + 1]}

GenericSams ==
    { s \in UNION { { [i \in 1..n |-> MkRead(st[i], IF same THEN 1 ELSE i,
                                              OpLists[ops[i]])] :
                        st \in NonDecStarts(n), ops \in [1..n -> DOMAIN OpLists],
                        same \in BOOLEAN } : n \in 1..MaxReads } :
        SortedSam(s) }

\* Scenario B of the specification.
ScenarioB ==
    [ref |-> Bases(120),
     sam |-> << MkRead(100, 1, << <<OpSoft, 3>>, <<OpMatch, 5>>, <<OpIns, 2>>,
                                  <<OpMatch, 10>> >>) >>]

\* Scenario C of the specification: insertions (50, 2) and (80, 3), and a
\* read starting at 90.
ScenarioC ==
    [ref |-> Bases(100),
     sam |-> << MkRead(48, 1, << <<OpMatch, 2>>, <<OpIns, 2>>, <<OpMatch, 2>> >>),
                MkRead(78, 2, << <<OpMatch, 2>>, <<OpIns, 3>>, <<OpMatch, 2>> >>),
                MkRead(90, 3, << <<OpMatch, 3>> >>) >>]

Samples ==
    { [ref |-> Bases(MaxStart + 6), sam |-> s] : s \in GenericSams }
    \cup {ScenarioB, ScenarioC}

----------------------------------------------------------------------------
(* main(): the calls of the realignment pipeline, in order.                *)

Init ==
    /\ pc = "get_cigar"
    /\ \E x \in Samples : ref_seq = x.ref /\ sam = x.sam
    /\ newsam = <<>>
    /\ insertions = <<>>
    /\ unique_inserts = <<>>
    /\ upd_inserts = <<>>
    /\ upd_sam = <<>>
    /\ updated_sam = <<>>
    /\ updated_refseq = <<>>
    /\ NonPipeIdle

GetCigar ==
    /\ pc = "get_cigar"
    /\ newsam' = get_cigar(sam).newsam
    /\ insertions' = get_cigar(sam).insertions
    /\ pc' = "del_duplicate_ins"
    /\ UNCHANGED <<ref_seq, sam, unique_inserts, upd_inserts, upd_sam,
                   updated_sam, updated_refseq>>
    /\ UNCHANGED nonPipeVars

DelDuplicateIns ==
    /\ pc = "del_duplicate_ins"
    /\ unique_inserts' = del_duplicate_ins(insertions)
    /\ pc' = "update_insertions"
    /\ UNCHANGED <<ref_seq, sam, newsam, insertions, upd_inserts, upd_sam,
                   updated_sam, updated_refseq>>
    /\ UNCHANGED nonPipeVars

UpdateInsertions ==
    /\ pc = "update_insertions"
    /\ upd_inserts' = update_insertions(unique_inserts)
    /\ pc' = "update_startpos"
    /\ UNCHANGED <<ref_seq, sam, newsam, insertions, unique_inserts, upd_sam,
                   updated_sam, updated_refseq>>
    /\ UNCHANGED nonPipeVars

UpdateStartpos ==
    /\ pc = "update_startpos"
    /\ upd_sam' = update_startpos(newsam, upd_inserts)
    /\ pc' = "update_reads"
    /\ UNCHANGED <<ref_seq, sam, newsam, insertions, unique_inserts, upd_inserts,
                   updated_sam, updated_refseq>>
    /\ UNCHANGED nonPipeVars

UpdateReads ==
    /\ pc = "update_reads"
    /\ updated_sam' = update_reads(upd_sam, upd_inserts)
    /\ pc' = "update_ref"
    /\ UNCHANGED <<ref_seq, sam, newsam, insertions, unique_inserts, upd_inserts,
                   upd_sam, updated_refseq>>
    /\ UNCHANGED nonPipeVars

UpdateRef ==
    /\ pc = "update_ref"
    /\ updated_refseq' = update_ref(ref_seq, upd_inserts)
    /\ pc' = "done"
    /\ UNCHANGED <<ref_seq, sam, newsam, insertions, unique_inserts, upd_inserts,
                   upd_sam, updated_sam>>
    /\ UNCHANGED nonPipeVars

Next ==
    \/ GetCigar
    \/ DelDuplicateIns
    \/ UpdateInsertions
    \/ UpdateStartpos
    \/ UpdateReads
    \/ UpdateRef

Spec == Init /\ [][Next]_vars

----------------------------------------------------------------------------
(* Properties of the realignment pipeline.                                 *)

AfterGetCigar == pc # "get_cigar"
AfterStartpos == pc \in {"update_reads", "update_ref", "done"}

\* The local offsets (column minus read start) of the gap columns that the
\* events a read does not own, and that lie in its span, occupy in the
\* gapped coordinate system; len is the read's length so far.
RECURSIVE ForeignOffsets(_, _, _)
ForeignOffsets(read, len, d) ==
    IF d = <<>> THEN {}
    ELSE IF /\ ~ NameIn(read.name, d[1].val)
            /\ d[1].key[1] >= read.start
            /\ d[1].key[1] - read.start <= len
         THEN {d[1].key[1] - read.start + k : k \in 0..(d[1].key[2] - 1)}
              \cup ForeignOffsets(read, len + d[1].key[2], Tail(d))
         ELSE ForeignOffsets(read, len, Tail(d))

\* s without the entries at the (0-based) offsets offs.
RECURSIVE WithoutOffsets(_, _, _)
WithoutOffsets(s, offs, k) ==
    IF s = <<>> THEN <<>>
    ELSE (IF k \in offs THEN <<>> ELSE <<s[1]>>) \o WithoutOffsets(Tail(s), offs, k + 1)

\* A read of updated_sam is aligned with the gapped reference: it holds a
\* gap, and so does the reference, in every column of a foreign event in
\* its span, and its other characters are those it had, in order.
ReadAligned(before, after) ==
    LET offs == ForeignOffsets(before, Len(before.seq), upd_inserts)
    IN  /\ Len(after.seq) = Len(before.seq) + Cardinality(offs)
        /\ \A o \in offs :
              /\ o + 1 \in DOMAIN after.seq
              /\ after.seq[o + 1] = "-"
              /\ after.start + o + 1 \in DOMAIN updated_refseq
              /\ updated_refseq[after.start + o + 1] = "-"
        /\ WithoutOffsets(after.seq, offs, 0) = before.seq

\* C1: after the realignment pipeline every read aligns columnwise with the
\* gapped reference: it holds gap characters at exactly the local offsets of
\* the gap runs of the foreign events in its span, and every original base
\* keeps its column.
C1_ColumnwiseAligned ==
    pc = "done" =>
        \A i \in DOMAIN updated_sam : ReadAligned(upd_sam[i], updated_sam[i])

EqualLengths(reads) == \A i \in DOMAIN reads : Len(reads[i].seq) = Len(reads[i].qual)

\* C2: base sequence and quality sequence of every read have equal length
\* after get_cigar, after update_startpos and after update_reads (they have
\* on input).
C2_SeqQualSameLength ==
    EqualLengths(sam) =>
        /\ EqualLengths(newsam)
        /\ EqualLengths(upd_sam)
        /\ EqualLengths(updated_sam)

\* C3: Scenario B: get_cigar drops the first 3 bases, moves the start to 103
\* and records exactly one insertion event, at coordinate 108 with length 2,
\* attributed to the read.
C3_ScenarioB ==
    (sam = ScenarioB.sam /\ AfterGetCigar) =>
        /\ Len(newsam) = 1
        /\ newsam[1].start = 103
        /\ newsam[1].seq = PyDrop(sam[1].seq, 3)
        /\ insertions = <<[coord |-> 108, len |-> 2, name |-> sam[1].name]>>

\* Sum of the lengths of the events of dict d before index k.
RECURSIVE LenBefore(_, _)
LenBefore(d, k) == IF k <= 1 THEN 0 ELSE d[k - 1].key[2] + LenBefore(d, k - 1)

\* Sum of the lengths of the events of dict d whose coordinate is below c.
RECURSIVE LenBelow(_, _)
LenBelow(d, c) ==
    IF d = <<>> THEN 0
    ELSE (IF d[1].key[1] < c THEN d[1].key[2] ELSE 0) + LenBelow(Tail(d), c)

KeyLt(a, b) == a[1] < b[1] \/ (a[1] = b[1] /\ a[2] < b[2])

\* C4: the events are taken in ascending (coordinate, length) order, each
\* gets the effective coordinate original + lengths of the events before
\* it, and every read's start becomes its start plus the lengths of the
\* events whose original coordinate is strictly below it; Scenario C gives
\* effective coordinates 50 and 82 and moves the read at 90 to 95.
C4_EffectiveCoordinatesAndStarts ==
    AfterStartpos =>
        /\ \A k \in 1..(Len(unique_inserts) - 1) :
              KeyLt(unique_inserts[k].key, unique_inserts[k + 1].key)
        /\ Len(upd_inserts) = Len(unique_inserts)
        /\ \A k \in DOMAIN upd_inserts :
              /\ upd_inserts[k].key[1] =
                    unique_inserts[k].key[1] + LenBefore(unique_inserts, k)
              /\ upd_inserts[k].key[2] = unique_inserts[k].key[2]
              /\ upd_inserts[k].val = unique_inserts[k].val
        /\ Len(upd_sam) = Len(newsam)
        /\ \A i \in DOMAIN upd_sam :
              upd_sam[i].start =
                  newsam[i].start + LenBelow(unique_inserts, newsam[i].start)
        /\ sam = ScenarioC.sam =>
              /\ Len(upd_inserts) = 2
              /\ upd_inserts[1].key = <<50, 2>>
              /\ upd_inserts[2].key = <<82, 3>>
              /\ upd_sam[3].start = 95

\* Scenario C has run: two events, and the read at 90 is moved past both.
C4_Witness ==
    /\ pc = "done"
    /\ sam = ScenarioC.sam
    /\ unique_inserts[2].key = <<80, 3>>
    /\ upd_inserts[2].key = <<82, 3>>
    /\ newsam[3].start = 90
    /\ upd_sam[3].start = 95

\* The calls of main() from get_cigar to update_ref, on reads s and
\* reference r.
realign(s, r) ==
    LET cig == get_cigar(s)
        ins == update_insertions(del_duplicate_ins(cig.insertions))
    IN  [sam |-> update_reads(update_startpos(cig.newsam, ins), ins),
         ref |-> update_ref(r, ins),
         insertions |-> cig.insertions]

\* C11: the pipeline run again on the reads and the gapped reference it
\* produced derives no insertion event and leaves every read (start, bases,
\* qualities) and the gapped reference as they are.
C11_RealignIdempotent ==
    pc = "done" =>
        LET again == realign(updated_sam, updated_refseq)
        IN  /\ again.insertions = <<>>
            /\ again.sam = updated_sam
            /\ again.ref = updated_refseq

\* Operation lists an alignment file may hold beside those of OpLists: a
\* skipped region (operation 3), a sequence match (operation 7), a
\* soft-clip and a hard-clip between two matches.
OtherOpLists ==
    << << <<OpMatch, 1>>, <<3, 1>>, <<OpMatch, 2>> >>,
       << <<7, 2>>, <<OpIns, 1>>, <<OpMatch, 1>> >>,
       << <<OpMatch, 1>>, <<OpSoft, 1>>, <<OpMatch, 2>> >>,
       << <<OpMatch, 2>>, <<OpHard, 1>>, <<OpMatch, 1>> >> >>

\* The stored sequence of a read: operation 7 consumes read bases as a
\* match does.
MkOtherRead(start, id, ops) ==
    LET n == QueryLen(ops) + SumSeq([k \in DOMAIN ops |->
                                        IF ops[k][1] = 7 THEN ops[k][2] ELSE 0])
    IN  [start |-> start, name |-> <<id>>, seq |-> Bases(n), cigar |-> ops,
         mapq |-> 60, qual |-> [i \in 1..n |-> 10 + i]]

\* Sorted reads of which the first holds one of the other operation lists.
OtherSams ==
    UNION { { [i \in 1..n |-> IF i = 1 THEN MkOtherRead(st[i], 1, OtherOpLists[o])
                              ELSE MkRead(st[i], i, OpLists[ops[i]])] :
                st \in NonDecStarts(n), o \in DOMAIN OtherOpLists,
                ops \in [1..n -> DOMAIN OpLists] } : n \in 1..MaxReads }

\* main() on an alignment file with such a read.
OtherInit ==
    /\ pc = "get_cigar"
    /\ ref_seq = Bases(MaxStart + 6)
    /\ sam \in OtherSams
    /\ newsam = <<>>
    /\ insertions = <<>>
    /\ unique_inserts = <<>>
    /\ upd_inserts = <<>>
    /\ upd_sam = <<>>
    /\ updated_sam = <<>>
    /\ updated_refseq = <<>>
    /\ NonPipeIdle

OtherSpec == OtherInit /\ [][Next]_vars

\* An operation list with an operation other than match, insertion,
\* deletion, soft-clip and hard-clip, or with a clip that is neither its
\* first nor its last operation.
Malformed(ops) ==
    /\ ops # NoCigar
    /\ \E k \in DOMAIN ops :
          \/ ops[k][1] \notin {OpMatch, OpIns, OpDel, OpSoft, OpHard}
          \/ ops[k][1] \in {OpSoft, OpHard} /\ k \notin {1, Len(ops)}

\* C20: get_cigar does not return when a read's operation list is
\* malformed: no such read is handed on with its offset advanced.
C20_MalformedReadAborts ==
    AfterGetCigar => \A i \in DOMAIN sam : ~ Malformed(sam[i].cigar)

----------------------------------------------------------------------------
(* The pipeline on reads with a trailing soft-clip, with several           *)
(* insertions or deletions, and on three reads of one name.                *)

CigarOpLists ==
    << << <<OpMatch, 3>> >>,
       << <<OpMatch, 2>>, <<OpSoft, 1>> >>,
       << <<OpSoft, 1>>, <<OpMatch, 2>>, <<OpSoft, 1>> >>,
       << <<OpMatch, 1>>, <<OpIns, 1>>, <<OpMatch, 2>> >>,
       << <<OpMatch, 1>>, <<OpIns, 2>>, <<OpMatch, 1>>, <<OpIns, 1>>, <<OpMatch, 1>> >>,
       << <<OpMatch, 1>>, <<OpIns, 1>>, <<OpMatch, 1>>, <<OpIns, 1>>, <<OpMatch, 1>>,
          <<OpIns, 1>>, <<OpMatch, 1>> >>,
       << <<OpMatch, 1>>, <<OpDel, 1>>, <<OpMatch, 1>>, <<OpDel, 1>>, <<OpMatch, 1>> >> >>

\* One or two reads, of one name or of two, and three reads of one name.
CigarSams ==
    { s \in UNION { { [i \in 1..n |-> MkRead(st[i], IF same THEN 1 ELSE i,
                                              CigarOpLists[ops[i]])] :
                        st \in NonDecStarts(n), ops \in [1..n -> DOMAIN CigarOpLists],
                        same \in BOOLEAN } : n \in 1..MaxReads }
             \cup { [i \in 1..3 |-> MkRead(0, 1, CigarOpLists[ops[i]])] :
                        ops \in [1..3 -> DOMAIN CigarOpLists] } :
        SortedSam(s) }

\* main() on such an alignment file.
CigarInit ==
    /\ pc = "get_cigar"
    /\ ref_seq = Bases(MaxStart + 6)
    /\ sam \in CigarSams
    /\ newsam = <<>>
    /\ insertions = <<>>
    /\ unique_inserts = <<>>
    /\ upd_inserts = <<>>
    /\ upd_sam = <<>>
    /\ updated_sam = <<>>
    /\ updated_refseq = <<>>
    /\ NonPipeIdle

CigarSpec == CigarInit /\ [][Next]_vars

\* The length of the soft-clip an operation list begins with, and of the
\* one it ends with (0 if there is none; a list of one operation has no
\* trailing clip).
LeadingSoft(ops) == IF ops[1][1] = OpSoft THEN ops[1][2] ELSE 0
TrailingSoft(ops) ==
    IF Len(ops) >= 2 /\ ops[Len(ops)][1] = OpSoft THEN ops[Len(ops)][2] ELSE 0

\* C25: for a read whose operation list ends with a soft-clip of length n,
\* get_cigar removes the last n bases and leaves the start unchanged,
\* whether or not the list also begins with a soft-clip; only a soft-clip
\* that is the first operation trims from the front and advances the start.
\* (Stated for reads without deletions, whose bases are otherwise kept.)
C25_TrailingSoftClipTrimsBack ==
    AfterGetCigar =>
        \A i \in DOMAIN sam :
            LET ops == sam[i].cigar
                lead == LeadingSoft(ops)
                trail == TrailingSoft(ops)
            IN  (trail > 0 /\ \A k \in DOMAIN ops : ops[k][1] # OpDel) =>
                    /\ newsam[i].start = sam[i].start + lead
                    /\ newsam[i].seq =
                          SubSeq(sam[i].seq, lead + 1, Len(sam[i].seq) - trail)

\* The total length of the match and deletion operations among the first
\* k operations of a list: the reference bases they span.
RECURSIVE RefSpan(_, _)
RefSpan(ops, k) ==
    IF k = 0 THEN 0
    ELSE (IF ops[k][1] \in {OpMatch, OpDel} THEN ops[k][2] ELSE 0) + RefSpan(ops, k - 1)

\* The insertion events of one read, in the order of its operations: each at
\* the read's start plus the reference bases spanned before it.
RECURSIVE EventsFrom(_, _, _)
EventsFrom(start, ops, k) ==
    IF k > Len(ops) THEN <<>>
    ELSE (IF ops[k][1] = OpIns
          THEN << <<start + RefSpan(ops, k - 1), ops[k][2]>> >>
          ELSE <<>>) \o EventsFrom(start, ops, k + 1)

RECURSIVE EventsOfReads(_, _)
EventsOfReads(before, after) ==
    IF before = <<>> THEN <<>>
    ELSE EventsFrom(after[1].start, before[1].cigar, 1)
         \o EventsOfReads(Tail(before), Tail(after))

\* C26: the j-th insertion event of a read is recorded at the read's start
\* plus the total length of the match and deletion operations before it
\* (start + pos minus the lengths of the j-1 insertions before it), also
\* when the read has three or more insertions.
C26_InsertionCoordinates ==
    AfterGetCigar =>
        /\ Len(insertions) = Len(EventsOfReads(sam, newsam))
        /\ \A k \in DOMAIN insertions :
              <<insertions[k].coord, insertions[k].len>> = EventsOfReads(sam, newsam)[k]

\* The number of insertion operations of a list, and of the first n reads.
InsCount(ops) == Cardinality({k \in DOMAIN ops : ops[k][1] = OpIns})
RECURSIVE InsCountUpTo(_, _)
InsCountUpTo(reads, n) ==
    IF n = 0 THEN 0 ELSE InsCount(reads[n].cigar) + InsCountUpTo(reads, n - 1)

\* The read that produced the k-th recorded event: events are recorded read
\* by read.
ProducerOf(reads, k) ==
    CHOOSE i \in DOMAIN reads :
        InsCountUpTo(reads, i - 1) < k /\ k <= InsCountUpTo(reads, i)

\* The length of a read once every event in its span is spliced in, in the
\* order of the events.
RECURSIVE PaddedLen(_, _, _)
PaddedLen(start, len, d) ==
    IF d = <<>> THEN len
    ELSE IF d[1].key[1] >= start /\ d[1].key[1] - start <= len
         THEN PaddedLen(start, len + d[1].key[2], Tail(d))
         ELSE PaddedLen(start, len, Tail(d))

\* C27: ownership of insertions is per read.  Every recorded event carries
\* the name its producing read finally carries; no two emitted reads that
\* produced insertions share a name; and a read without insertions is
\* padded at every event in its span, also when another read of its name
\* produced the event.
C27_OwnershipPerRead ==
    pc = "done" =>
        /\ \A k \in DOMAIN insertions :
              insertions[k].name = newsam[ProducerOf(sam, k)].name
        /\ \A i, j \in DOMAIN newsam :
              (i # j /\ InsCount(sam[i].cigar) > 0 /\ InsCount(sam[j].cigar) > 0) =>
                  newsam[i].name # newsam[j].name
        /\ \A i \in DOMAIN sam :
              InsCount(sam[i].cigar) = 0 =>
                  Len(updated_sam[i].seq) =
                      PaddedLen(upd_sam[i].start, Len(upd_sam[i].seq), upd_inserts)

\* A sequence laid out along the reference by a list of match and deletion
\* operations: a match takes the next characters of s, a deletion is a run
\* of gap.
RECURSIVE LaidOut(_, _, _)
LaidOut(s, ops, gap) ==
    IF ops = <<>> THEN s
    ELSE IF ops[1][1] = OpDel
         THEN Rep(gap, ops[1][2]) \o LaidOut(s, Tail(ops), gap)
         ELSE PyTake(s, ops[1][2]) \o LaidOut(PyDrop(s, ops[1][2]), Tail(ops), gap)

\* C30: after get_cigar the gap run of every deletion follows the read
\* characters of the operations before it and the gaps of the deletions
\* before it, in bases and qualities alike, so that in a read of matches and
\* deletions only the character at index k is the one aligned to start + k;
\* also with two or more deletions.
C30_DeletionGapsInPlace ==
    AfterGetCigar =>
        \A i \in DOMAIN sam :
            (\A k \in DOMAIN sam[i].cigar : sam[i].cigar[k][1] \in {OpMatch, OpDel}) =>
                /\ newsam[i].seq = LaidOut(sam[i].seq, sam[i].cigar, "-")
                /\ newsam[i].qual = LaidOut(sam[i].qual, sam[i].cigar, GapQual)

----------------------------------------------------------------------------
(* Exact rationals <<n, d>>, d > 0, in lowest terms, for the floats of the  *)
(* transition matrix.                                                      *)

Abs(x) == IF x < 0 THEN 0 - x ELSE x

RECURSIVE Gcd(_, _)
Gcd(a, b) == IF b = 0 THEN a ELSE Gcd(b, a % b)

Rat(n, d) ==
    LET g == Gcd(Abs(n), Abs(d))
        sgn == IF d < 0 THEN -1 ELSE 1
    IN  <<sgn * (n \div g), sgn * (d \div g)>>

RInt(k) == <<k, 1>>
RAdd(a, b) ==
    LET g == Gcd(a[2], b[2])
        l == (a[2] \div g) * b[2]
    IN  Rat(a[1] * (l \div a[2]) + b[1] * (l \div b[2]), l)
RNeg(a) == <<0 - a[1], a[2]>>
RSub(a, b) == RAdd(a, RNeg(b))
RMul(a, b) ==
    LET g1 == Gcd(Abs(a[1]), b[2])
        g2 == Gcd(Abs(b[1]), a[2])
    IN  Rat((a[1] \div g1) * (b[1] \div g2), (a[2] \div g2) * (b[2] \div g1))
\* a / k for an integer k > 0
RDivInt(a, k) == RMul(a, <<1, k>>)
RLt(a, b) == a[1] * b[2] < b[1] * a[2]

\* s[lo] + ... + s[hi], summed by halves
RECURSIVE RSumRange(_, _, _)
RSumRange(s, lo, hi) ==
    IF lo > hi THEN RInt(0)
    ELSE IF lo = hi THEN s[lo]
    ELSE RAdd(RSumRange(s, lo, (lo + hi) \div 2),
              RSumRange(s, ((lo + hi) \div 2) + 1, hi))
RSum(s) == RSumRange(s, 1, Len(s))

----------------------------------------------------------------------------
(* create_row_transition_matrix                                            *)

NumStates == 30

\* transrow(30): the column of the invalid state.
RowInvalid(v, h) == RDivInt(RMul(v[4], h), 32)
\* 1 - transrow(30)
RowRest(v, h) == RSub(RInt(1), RowInvalid(v, h))
\* transrow(1)
RowMatch(v, h) == RMul(RMul(v[1], RSub(RInt(1), h)), RowRest(v, h))
\* transrow(2:4)
RowHomSnp(v, h) == RMul(RDivInt(RMul(v[2], RSub(RInt(1), h)), 3), RowRest(v, h))
\* A variant of transrow(5:7) that divides the heterozygous share by 3.
RowHetRefSnpBy3(v, h) ==
    RMul(RDivInt(RMul(RAdd(v[1], RDivInt(v[2], 3)), h), 3), RowRest(v, h))
\* transrow(5:7)
RowHetRefSnp(v, h) ==
    RMul(RDivInt(RMul(RAdd(v[1], RDivInt(v[2], 3)), h), 4), RowRest(v, h))
\* transrow(8)
RowHetRefDel(v, h) == RMul(RDivInt(RMul(RAdd(v[1], v[3]), h), 4), RowRest(v, h))
\* transrow([9:10,12])
RowHetSnpSnp(v, h) == RMul(RDivInt(RMul(v[2], h), 6), RowRest(v, h))
\* transrow([11,13,14])
RowHetSnpDel(v, h) ==
    RMul(RDivInt(RMul(RAdd(RDivInt(v[2], 3), v[3]), h), 4), RowRest(v, h))
\* transrow(15)
RowHomDel(v, h) == RMul(RMul(v[3], RSub(RInt(1), h)), RowRest(v, h))
\* transrow(16:19)
RowHomIns(v, h) == RMul(RDivInt(RMul(v[4], RSub(RInt(1), h)), 4), RowRest(v, h))
\* transrow([20:22,24,25,27])
RowHetIns(v, h) == RMul(RDivInt(RMul(v[4], h), 8), RowRest(v, h))
\* transrow([23,26,28,29])
RowHetInsGap(v, h) == RMul(RDivInt(RMul(v[4], h), 16), RowRest(v, h))

\* Entry j (Python index j - 1) of the row.
create_row_transition_matrix(v, h) ==
    [j \in 1..NumStates |->
        IF j = 30 THEN RowInvalid(v, h)
        ELSE IF j = 1 THEN RowMatch(v, h)
        ELSE IF j \in 2..4 THEN RowHomSnp(v, h)
        ELSE IF j \in 5..7 THEN RowHetRefSnp(v, h)
        ELSE IF j = 8 THEN RowHetRefDel(v, h)
        ELSE IF j \in {9, 10, 12} THEN RowHetSnpSnp(v, h)
        ELSE IF j \in {11, 13, 14} THEN RowHetSnpDel(v, h)
        ELSE IF j = 15 THEN RowHomDel(v, h)
        ELSE IF j \in 16..19 THEN RowHomIns(v, h)
        ELSE IF j \in {20, 21, 22, 24, 25, 27} THEN RowHetIns(v, h)
        ELSE RowHetInsGap(v, h)]

----------------------------------------------------------------------------
(* create_transition_matrix                                                *)

\* A variant in which the single-gap rows are copies of the SNP row.
create_transition_matrix_copy(pre, h) ==
    LET match == create_row_transition_matrix(pre[1], h)
        snp == create_row_transition_matrix(pre[2], h)
        del == create_row_transition_matrix(pre[3], h)
        ins == create_row_transition_matrix(pre[4], h)
    IN  [i \in 1..NumStates |->
            IF i = 1 THEN match
            ELSE IF i \in 2..14 THEN snp
            ELSE IF i = 15 THEN del
            ELSE IF i \in 16..29 THEN ins
            ELSE [j \in 1..NumStates |-> Rat(1, 30)]]
\* Row i (Python index i - 1) of the matrix.
create_transition_matrix(pre, h) ==
    LET match == create_row_transition_matrix(pre[1], h)
        snp == create_row_transition_matrix(pre[2], h)
        del == create_row_transition_matrix(pre[3], h)
        ins == create_row_transition_matrix(pre[4], h)
    IN  [i \in 1..NumStates |->
            IF i = 1 THEN match
            ELSE IF i \in {2, 3, 4, 5, 6, 7, 9, 10, 12} THEN snp
            ELSE IF i = 15 THEN del
            ELSE IF i \in {8, 11, 13, 14}
                 THEN [j \in 1..NumStates |-> RDivInt(RAdd(snp[j], del[j]), 2)]
            ELSE IF i \in 16..29 THEN ins
            ELSE [j \in 1..NumStates |-> Rat(1, 30)]]

\* Inputs: rows of class probabilities that sum to 1, and rates in [0, 1).
ClassRows ==
    { [k \in 1..4 |-> Rat(n[k], ClassDen)] :
        n \in {m \in [1..4 -> 0..ClassDen] : m[1] + m[2] + m[3] + m[4] = ClassDen} }
\* Every row of the result is computed from one class row, and rows 7, 10,
\* 12, 13 from the SNP and the deletion row together: the SNP and the
\* deletion row are drawn freely, the match row with the deletion row and
\* the insertion row with the SNP row.
ClassMatrices == { <<a, b, a, b>> : a \in ClassRows, b \in ClassRows }
HetRates == { Rat(n, HetDen) : n \in 0..(HetDen - 1) }

TransInit ==
    /\ pc = "create_transition_matrix"
    /\ pre_transition_matrix \in ClassMatrices
    /\ hetrate \in HetRates
    /\ trans_matrix = <<>>
    /\ NonTransIdle

CreateTransitionMatrix ==
    /\ pc = "create_transition_matrix"
    /\ trans_matrix' = create_transition_matrix(pre_transition_matrix, hetrate)
    /\ pc' = "transition_done"
    /\ UNCHANGED <<pre_transition_matrix, hetrate>>
    /\ UNCHANGED nonTransVars

TransNext == CreateTransitionMatrix

TransSpec == TransInit /\ [][TransNext]_vars

\* C5: rows 0..28 of the transition matrix each sum to 1, and row 29 holds
\* 1/30 in all 30 columns, for every class matrix with rows summing to 1 and
\* every heterozygosity rate in [0, 1).
C5_RowsSumToOne ==
    pc = "transition_done" =>
        /\ DOMAIN trans_matrix = 1..30
        /\ \A i \in 1..29 :
              /\ DOMAIN trans_matrix[i] = 1..30
              /\ RSum(trans_matrix[i]) = RInt(1)
        /\ DOMAIN trans_matrix[30] = 1..30
        /\ \A j \in 1..30 : trans_matrix[30][j] = Rat(1, 30)

\* A matrix built for a positive rate: heterozygous and invalid columns are
\* positive and the single-gap rows differ from the SNP row.
C5_Witness ==
    /\ pc = "transition_done"
    /\ hetrate # RInt(0)
    /\ RLt(RInt(0), trans_matrix[8][30])
    /\ RLt(RInt(0), trans_matrix[2][5])
    /\ trans_matrix[8] # trans_matrix[2]

----------------------------------------------------------------------------
(* viterbi: representation.                                                *)
(*   - an emission column is the sentinel -1 or a list of 30 entries; here *)
(*     it is a record: nodata says which, nan is the set of the (1-based)  *)
(*     entries that hold the string "NaN", and w[j] is exp(entry j) in     *)
(*     units of 1/8, 0 for an entry that is "NaN" or -inf;                 *)
(*   - the transition matrix is its integer numerators n over the common   *)
(*     denominator d;                                                      *)
(*   - a column of delta is the sentinel -1 (kind "nodata"), a list of nan *)
(*     (kind "nan"), or a list of 30 numbers that sum to 1 (kind "vec"):   *)
(*     entry j is num[j] divided by the sum of num, num in lowest terms;   *)
(*   - xtilde holds Python's values: a state 0..29 or the sentinel -1.     *)

\* Longest emission sequence handed to a single call of viterbi.
MaxCols == 4
\* Longest stretch of columns before and after the shared run of a pair.
MaxPad == 1

\* list.reverse()
Reverse(s) == [k \in 1..Len(s) |-> s[Len(s) + 1 - k]]

RECURSIVE ISumRange(_, _, _)
ISumRange(v, lo, hi) ==
    IF lo > hi THEN 0
    ELSE IF lo = hi THEN v[lo]
    ELSE LET mid == (lo + hi) \div 2
         IN ISumRange(v, lo, mid) + ISumRange(v, mid + 1, hi)

RECURSIVE GcdRange(_, _, _)
GcdRange(v, lo, hi) ==
    IF lo = hi THEN v[lo]
    ELSE LET mid == (lo + hi) \div 2
         IN Gcd(GcdRange(v, lo, mid), GcdRange(v, mid + 1, hi))

\* np.max of a list of numbers
MaxOf(S) == CHOOSE x \in S : \A y \in S : y <= x

\* v.index(np.max(v)): Python's index of the first largest entry
IndexOfMax(v) ==
    (CHOOSE j \in DOMAIN v :
        /\ \A k \in DOMAIN v : v[k] <= v[j]
        /\ \A k \in 1..(j - 1) : v[k] < v[j]) - 1

NoDataDelta == [kind |-> "nodata", num |-> <<>>]
NanDelta == [kind |-> "nan", num |-> <<>>]

\* temp_list[ii] / sum, and np.exp(emmi_list[y] - logsumexp(emmi_list)):
\* every entry divided by the sum of the entries; 0 / 0 is nan.
Normalised(temp) ==
    IF ISumRange(temp, 1, NumStates) = 0 THEN NanDelta
    ELSE LET g == GcdRange(temp, 1, NumStates)
         IN [kind |-> "vec", num |-> [j \in 1..NumStates |-> temp[j] \div g]]

\* "Case: Initialization" of the forward pass.
ForwardInit(T, col) ==
    Normalised([ii \in 1..NumStates |-> T.n[1][ii] * col.w[ii]])

\* "Case: Consecutive sequence" of the forward pass: row y of the product
\* matrix is transmission_matrix[y][z] * delta[i - 1][z] over z.
ForwardConsecutive(T, prev, col) ==
    IF prev.kind = "nan" THEN NanDelta
    ELSE Normalised([y \in 1..NumStates |->
             MaxOf({T.n[y][z] * prev.num[z] : z \in 1..NumStates}) * col.w[y]])

\* One pass of the first loop over the columns; i is Python's index and d
\* the list delta built so far.
ForwardStep(em, T, d, i) ==
    IF em[i + 1].nodata THEN NoDataDelta
    ELSE IF i = 0 \/ em[i].nodata THEN ForwardInit(T, em[i + 1])
    ELSE ForwardConsecutive(T, d[i], em[i + 1])

\* transmission_matrix[s] for a Python index s, which may be negative.
PyRow(T, s) == T.n[IF s < 0 THEN NumStates + s + 1 ELSE s + 1]

\* What stops one pass of the second loop (over the reversed delta):
\* delta[i + 1] does not exist at the last index, and .index does not find
\* nan in a list of nan.
BacktrackError(d, i) ==
    IF d[i + 1].kind = "nodata" THEN "none"
    ELSE IF i = 0 THEN (IF d[1].kind = "nan" THEN "ValueError" ELSE "none")
    ELSE IF i + 1 = Len(d) THEN "IndexError"
    ELSE IF d[i + 1].kind = "nan" THEN "ValueError"
    ELSE "none"

\* Entries j and k of the forward vector of column c (c counts from 1 in
\* the order of the columns) are computed from the same operands, and are
\* therefore the same float: the two states have the same emission and the
\* same transition entries (those of initialprob in the first column of a
\* segment, their whole row in a later one).
SameForward(T, em, c, j, k) ==
    /\ em[c].w[j] = em[c].w[k]
    /\ IF c = 1 \/ em[c - 1].nodata THEN T.n[1][j] = T.n[1][k]
       ELSE T.n[j] = T.n[k]

\* v.index(np.max(v)) on a list of floats whose exact values are v: Python's
\* index of the first largest float.  Entries with the same operands are
\* the same float and the first of them is found; which of several entries
\* that are equal as exact numbers but computed from different operands is
\* the largest float is decided by the rounding of the products and of
\* exp and log, so each of them may be the one returned.  same[k][m] tells
\* whether entries k and m have the same operands.
IndexesOfMax(v, same) ==
    { j - 1 : j \in { m \in DOMAIN v :
                        /\ \A k \in DOMAIN v : v[k] <= v[m]
                        /\ \A k \in 1..(m - 1) : v[k] = v[m] => ~ same[k][m] } }

\* A variant that takes the likeliest successor of the later column's state
\* without looking at the forward vector.
BacktrackStatesByRow(T, em, d, x, i) ==
    IF d[i + 1].kind = "nodata" THEN {-1}
    ELSE IF i = 0 \/ d[i + 2].kind = "nodata" THEN {IndexOfMax(d[i + 1].num)}
    ELSE {IndexOfMax(PyRow(T, x[i]))}
\* The states one pass of the second loop can append; x is xtilde so far,
\* d the reversed delta and em the emission matrix delta was built from
\* (column Len(d) - i of em is entry i of d).
BacktrackStates(T, em, d, x, i) ==
    LET c == Len(d) - i
    IN  IF d[i + 1].kind = "nodata" THEN {-1}
        ELSE IF i = 0 \/ d[i + 2].kind = "nodata"
             THEN IndexesOfMax(d[i + 1].num,
                               [j \in 1..NumStates |-> [k \in 1..NumStates |->
                                   SameForward(T, em, c, j, k)]])
        ELSE LET trans_row == PyRow(T, x[i])
             IN  IndexesOfMax([j \in 1..NumStates |-> d[i + 1].num[j] * trans_row[j]],
                              [j \in 1..NumStates |-> [k \in 1..NumStates |->
                                  /\ SameForward(T, em, c, j, k)
                                  /\ trans_row[j] = trans_row[k]]])

\* "Change NaN to -inf": the entries that held "NaN" hold -inf afterwards.
NanToNinf(em) ==
    [i \in DOMAIN em |-> [nodata |-> em[i].nodata, nan |-> {}, w |-> em[i].w]]

----------------------------------------------------------------------------
(* viterbi: inputs.                                                        *)

NoDataCol == [nodata |-> TRUE, nan |-> {}, w |-> <<>>]

\* A column of 30 entries from its weights; weight 0 stands for "NaN".
DataCol(f) ==
    [nodata |-> FALSE, nan |-> {j \in 1..NumStates : f[j] = 0}, w |-> f]

\* A base column whose reads agree with the reference: the homozygous
\* reference state is the likeliest, the states without the reference base
\* are "NaN", and so is the insertion half.
ColRef ==
    DataCol([j \in 1..NumStates |->
        IF j = 1 THEN 8 ELSE IF j \in 5..8 THEN 2 ELSE 0])
\* A base column whose reads show the reference base and one other base.
ColHet ==
    DataCol([j \in 1..NumStates |->
        IF j = 5 THEN 8 ELSE IF j \in {1, 2} THEN 3
        ELSE IF j \in 6..11 THEN 1 ELSE 0])
\* A gap column of the reference: the base half is "NaN".
ColIns ==
    DataCol([j \in 1..NumStates |->
        IF j = 23 THEN 8 ELSE IF j \in {16, 30} THEN 2
        ELSE IF j \in 20..22 THEN 1 ELSE 0])

DataCols == {ColRef, ColHet, ColIns}
EmCols == DataCols \cup {NoDataCol}

\* All lists of 1..n columns.
EmSeqs(cols, lo, hi) == UNION { [1..k -> cols] : k \in lo..hi }

\* A matrix that prefers staying in a state, then the next state.
StickyMatrix ==
    [n |-> [y \in 1..NumStates |-> [z \in 1..NumStates |->
               IF z = y THEN 5 ELSE IF z = (y % NumStates) + 1 THEN 3 ELSE 1]],
     d |-> 36]
UniformMatrix ==
    [n |-> [y \in 1..NumStates |-> [z \in 1..NumStates |-> 1]], d |-> 30]
\* The matrix create_transition_matrix builds when every class moves to
\* match or SNP with probability 1/2 each, at rate 0: its entries are
\* multiples of 1/30, most of them 0.
BuiltMatrix ==
    LET r == <<Rat(1, 2), Rat(1, 2), RInt(0), RInt(0)>>
        m == create_transition_matrix(<<r, r, r, r>>, RInt(0))
    IN  [n |-> [y \in 1..NumStates |-> [z \in 1..NumStates |->
                   (30 * m[y][z][1]) \div m[y][z][2]]],
         d |-> 30]
\* The matrix create_transition_matrix builds, at rate 0, for a class matrix
\* with the zeros of the default one: deletion moves to insertion, and
\* insertion to deletion, with probability 0.  Its entries are multiples of
\* 1/480 (1/4, 1/12, 1/16 and their means in the rows 0..28, 1/30 in row 29).
ZeroClassMatrix ==
    LET u == <<Rat(1, 4), Rat(1, 4), Rat(1, 4), Rat(1, 4)>>
        del == <<Rat(1, 2), Rat(1, 4), Rat(1, 4), RInt(0)>>
        ins == <<Rat(1, 2), Rat(1, 4), RInt(0), Rat(1, 4)>>
        m == create_transition_matrix(<<u, u, del, ins>>, RInt(0))
    IN  [n |-> [y \in 1..NumStates |-> [z \in 1..NumStates |->
                   (480 * m[y][z][1]) \div m[y][z][2]]],
         d |-> 480]
VitMatrices == {StickyMatrix, UniformMatrix, BuiltMatrix, ZeroClassMatrix}

\* Two sequences that share a run of data columns between two no-data
\* columns and differ before the first or after the second of them.
PairInputs ==
    { << pa \o <<NoDataCol>> \o r \o <<NoDataCol>> \o sa,
         pb \o <<NoDataCol>> \o r \o <<NoDataCol>> \o sb >> :
        pa \in EmSeqs({NoDataCol, ColRef}, 0, MaxPad),
        pb \in EmSeqs({NoDataCol, ColRef}, 0, MaxPad),
        sa \in EmSeqs({NoDataCol, ColRef}, 0, MaxPad),
        sb \in EmSeqs({NoDataCol, ColRef}, 0, MaxPad),
        r \in EmSeqs(DataCols, 1, 2) }

----------------------------------------------------------------------------
(* viterbi, one loop pass per step; main() calls it on each input in turn. *)

ViterbiInit(inputs) ==
    /\ pc = "viterbi_nan"
    /\ em_inputs \in inputs
    /\ vit_call = 1
    /\ emission_matrix = em_inputs[1]
    /\ transmission_matrix \in VitMatrices
    /\ delta = <<>>
    /\ vit_i = 0
    /\ xtilde = <<>>
    /\ vit_results = <<>>
    /\ NonVitIdle

\* The call ends with res; the next input, if any, is decoded next.
ViterbiEnds(res) ==
    /\ vit_results' = Append(vit_results, res)
    /\ IF vit_call < Len(em_inputs)
       THEN /\ vit_call' = vit_call + 1
            /\ emission_matrix' = em_inputs[vit_call + 1]
            /\ pc' = "viterbi_nan"
       ELSE /\ pc' = "viterbi_done"
            /\ UNCHANGED <<vit_call, emission_matrix>>
    /\ delta' = <<>>
    /\ xtilde' = <<>>
    /\ vit_i' = 0
    /\ UNCHANGED <<em_inputs, transmission_matrix>>
    /\ UNCHANGED nonVitVars

\* The loop "Change NaN to -inf".
VitNanToNinf ==
    /\ pc = "viterbi_nan"
    /\ emission_matrix' = NanToNinf(emission_matrix)
    /\ pc' = "viterbi_forward"
    /\ UNCHANGED <<em_inputs, vit_call, transmission_matrix, delta, vit_i,
                   xtilde, vit_results>>
    /\ UNCHANGED nonVitVars

\* One pass of the loop "Run Viterbi".
VitForward ==
    /\ pc = "viterbi_forward"
    /\ vit_i < Len(emission_matrix)
    /\ delta' = Append(delta, ForwardStep(emission_matrix, transmission_matrix,
                                          delta, vit_i))
    /\ vit_i' = vit_i + 1
    /\ UNCHANGED <<pc, em_inputs, vit_call, emission_matrix,
                   transmission_matrix, xtilde, vit_results>>
    /\ UNCHANGED nonVitVars

\* xtilde = []; delta.reverse()
VitReverse ==
    /\ pc = "viterbi_forward"
    /\ vit_i = Len(emission_matrix)
    /\ delta' = Reverse(delta)
    /\ xtilde' = <<>>
    /\ vit_i' = 0
    /\ pc' = "viterbi_backtrack"
    /\ UNCHANGED <<em_inputs, vit_call, emission_matrix, transmission_matrix,
                   vit_results>>
    /\ UNCHANGED nonVitVars

\* One pass of the loop "Get xtilde".
VitBacktrack ==
    /\ pc = "viterbi_backtrack"
    /\ vit_i < Len(delta)
    /\ BacktrackError(delta, vit_i) = "none"
    /\ \E state \in BacktrackStates(transmission_matrix, emission_matrix, delta,
                                     xtilde, vit_i) :
          xtilde' = Append(xtilde, state)
    /\ vit_i' = vit_i + 1
    /\ UNCHANGED <<pc, em_inputs, vit_call, emission_matrix,
                   transmission_matrix, delta, vit_results>>
    /\ UNCHANGED nonVitVars

\* A pass of the loop "Get xtilde" that raises: the call returns nothing.
VitRaise ==
    /\ pc = "viterbi_backtrack"
    /\ vit_i < Len(delta)
    /\ BacktrackError(delta, vit_i) # "none"
    /\ ViterbiEnds([error |-> BacktrackError(delta, vit_i), path |-> <<>>])

\* xtilde.reverse(); return xtilde
VitReturn ==
    /\ pc = "viterbi_backtrack"
    /\ vit_i = Len(delta)
    /\ ViterbiEnds([error |-> "none", path |-> Reverse(xtilde)])

ViterbiNext ==
    \/ VitNanToNinf
    \/ VitForward
    \/ VitReverse
    \/ VitBacktrack
    \/ VitRaise
    \/ VitReturn

\* One call of viterbi on every list of at most MaxCols columns.
ViterbiSpecInit == ViterbiInit({ <<em>> : em \in EmSeqs(EmCols, 1, MaxCols) })
ViterbiSpec == ViterbiSpecInit /\ [][ViterbiNext]_vars

\* Two calls of viterbi, on the two sequences of a pair.
ViterbiPairInit == ViterbiInit(PairInputs)
ViterbiPairSpec == ViterbiPairInit /\ [][ViterbiNext]_vars

----------------------------------------------------------------------------
(* Properties of viterbi.                                                  *)

\* The columns a+1..a+len of em are data columns between two no-data columns.
DelimitedRun(em, a, len) ==
    /\ a >= 1 /\ len >= 1 /\ a + len + 1 <= Len(em)
    /\ em[a].nodata
    /\ em[a + len + 1].nodata
    /\ \A c \in (a + 1)..(a + len) : ~ em[c].nodata

\* C6: two emission sequences that hold the same run of data columns between
\* two no-data columns, and differ before the first or after the second of
\* them, get the same decoded states for that run.
C6_RunDecodedAlone ==
    (pc = "viterbi_done" /\ Len(em_inputs) = 2) =>
        /\ vit_results[1].error = "none"
        /\ vit_results[2].error = "none"
        /\ \A a \in 1..Len(em_inputs[1]), b \in 1..Len(em_inputs[2]),
              len \in 1..Len(em_inputs[1]) :
              ( /\ DelimitedRun(em_inputs[1], a, len)
                /\ DelimitedRun(em_inputs[2], b, len)
                /\ SubSeq(em_inputs[1], a + 1, a + len)
                     = SubSeq(em_inputs[2], b + 1, b + len) )
              => SubSeq(vit_results[1].path, a + 1, a + len)
                   = SubSeq(vit_results[2].path, b + 1, b + len)

\* C7: for every emission sequence viterbi returns a path with one entry per
\* column, -1 at the no-data columns and a state 0..29 at every other column.
C7_PathForEverySequence ==
    pc = "viterbi_done" =>
        \A k \in DOMAIN vit_results :
            /\ vit_results[k].error = "none"
            /\ Len(vit_results[k].path) = Len(em_inputs[k])
            /\ \A c \in DOMAIN em_inputs[k] :
                  IF em_inputs[k][c].nodata
                  THEN vit_results[k].path[c] = -1
                  ELSE vit_results[k].path[c] \in 0..(NumStates - 1)

\* The forward vector of a column that follows the data column with forward
\* vector prev, when the entry of destination state j is the largest of
\* transition[i][j] * prev[i] over the source states i, times the emission
\* of j, and the entries are normalised.
SourceRowForward(T, prev, col) ==
    IF prev.kind = "nan" THEN NanDelta
    ELSE Normalised([j \in 1..NumStates |->
             MaxOf({T.n[i][j] * prev.num[i] : i \in 1..NumStates}) * col.w[j]])

\* C12: for every column of a segment after its first, the forward vector is
\* built from the maximum over source states i of transition[i][j] *
\* previous[i] for every destination state j (row = source, column =
\* destination), whatever the transition matrix.
C12_MaxOverSourceStates ==
    pc = "viterbi_forward" =>
        \A c \in 2..Len(delta) :
            (~ emission_matrix[c].nodata /\ ~ emission_matrix[c - 1].nodata)
            => delta[c] = SourceRowForward(transmission_matrix, delta[c - 1],
                                           emission_matrix[c])

\* The state of the k-th column from the end (k counts from 1 in the
\* reversed delta d) when x holds the states chosen for the later columns:
\* the argmax of the forward vector at the last column of a segment, and
\* the argmax of forward[s] * transition[c][s] at every earlier one, c being
\* the state of the next later column.
SegmentBacktrack(T, d, x, k) ==
    IF k = 1 \/ d[k - 1].kind = "nodata" THEN IndexOfMax(d[k].num)
    ELSE IndexOfMax([s \in 1..NumStates |->
                        d[k].num[s] * T.n[x[k - 1] + 1][s]])

\* C13: in the backtracking, the last column of every segment gets the argmax
\* of its forward vector, and every earlier column of the segment, its first
\* column included, gets the state s maximising forward[s] *
\* transition[c][s], c being the state chosen for the next later column of
\* the segment (first index on ties).
C13_BacktrackWithinSegment ==
    pc = "viterbi_backtrack" =>
        \A k \in DOMAIN xtilde :
            delta[k].kind = "vec"
            => xtilde[k] = SegmentBacktrack(transmission_matrix, delta, xtilde, k)

\* C28: viterbi leaves both of its arguments unchanged: no step changes the
\* transition matrix, and when a call has returned the emission matrix
\* passed in holds the entries, undefined markers included, it held before
\* the call.
C28_ArgumentsUnchanged ==
    [][ /\ transmission_matrix' = transmission_matrix
        /\ (pc' = "viterbi_done" /\ vit_results'[vit_call'].error = "none")
               => (emission_matrix' = em_inputs'[vit_call']) ]_vars

\* A column built where the gapped reference holds a base has no emission
\* for the states 15..29, one built where it holds a gap has none for the
\* states 0..14.
BaseColumn(col) == ~ col.nodata /\ \A j \in 16..30 : j \in col.nan
GapColumn(col) == ~ col.nodata /\ \A j \in 1..15 : j \in col.nan

\* C29: every non-sentinel state of a returned path is valid for its column:
\* it lies in 0..14 where the gapped reference holds a base and in 15..29
\* where it holds a gap, whatever the transition matrix, matrices with zero
\* entries included.
C29_StatesValidForColumn ==
    pc = "viterbi_done" =>
        \A k \in DOMAIN vit_results :
            vit_results[k].error = "none" =>
                \A c \in DOMAIN vit_results[k].path :
                    LET s == vit_results[k].path[c]
                        col == em_inputs[k][c]
                    IN  s # -1 =>
                            /\ BaseColumn(col) => s \in 0..14
                            /\ GapColumn(col) => s \in 15..29

\* A returned path over three data columns in a row, the middle one a gap
\* column decoded through the transition row of the state after it, under a
\* transition matrix with zero entries.
C29_Witness ==
    /\ pc = "viterbi_done"
    /\ vit_results[1].error = "none"
    /\ Len(em_inputs[1]) = 4
    /\ em_inputs[1][1].nodata
    /\ BaseColumn(em_inputs[1][2])
    /\ GapColumn(em_inputs[1][3])
    /\ BaseColumn(em_inputs[1][4])
    /\ vit_results[1].path[3] \in 15..29
    /\ \E y, z \in 1..30 : transmission_matrix.n[y][z] = 0

----------------------------------------------------------------------------
(* find_base_state.                                                        *)
(* An entry of base_states is the sentinel -1, a pair of alleles, or the   *)
(* reference character itself (for N and unknown characters); here it is a *)
(* record: sentinel says whether it is -1, alleles is the pair or the one  *)
(* character.                                                              *)

vector_A ==
    << <<"A", "A">>, <<"C", "C">>, <<"G", "G">>, <<"T", "T">>, <<"A", "C">>,
       <<"A", "G">>, <<"A", "T">>, <<"A", "-">>, <<"C", "G">>, <<"C", "T">>,
       <<"C", "-">>, <<"G", "T">>, <<"G", "-">>, <<"T", "-">>, <<"-", "-">> >>
vector_C ==
    << <<"C", "C">>, <<"A", "A">>, <<"G", "G">>, <<"T", "T">>, <<"A", "C">>,
       <<"C", "G">>, <<"C", "T">>, <<"C", "-">>, <<"A", "G">>, <<"A", "T">>,
       <<"A", "-">>, <<"G", "T">>, <<"G", "-">>, <<"T", "-">>, <<"-", "-">> >>
vector_G ==
    << <<"G", "G">>, <<"A", "A">>, <<"C", "C">>, <<"T", "T">>, <<"A", "G">>,
       <<"C", "G">>, <<"G", "T">>, <<"G", "-">>, <<"A", "C">>, <<"A", "T">>,
       <<"A", "-">>, <<"C", "T">>, <<"C", "-">>, <<"T", "-">>, <<"-", "-">> >>
vector_T ==
    << <<"T", "T">>, <<"A", "A">>, <<"C", "C">>, <<"G", "G">>, <<"A", "T">>,
       <<"C", "T">>, <<"G", "T">>, <<"T", "-">>, <<"A", "C">>, <<"A", "G">>,
       <<"A", "-">>, <<"C", "G">>, <<"C", "-">>, <<"G", "-">>, <<"-", "-">> >>

\* vector_A_ex is vector_A itself, so extending it by vector_A doubles
\* vector_A; the other three tables are then extended by the doubled list.
vector_A_ex == vector_A \o vector_A
\* The table of C extended by itself instead of by the table of A.
vector_C_own == vector_C \o vector_C
vector_C_ex == vector_C \o vector_A_ex
vector_G_ex == vector_G \o vector_A_ex
vector_T_ex == vector_T \o vector_A_ex

NoGenotype == [sentinel |-> TRUE, alleles |-> <<>>]
Genotype(g) == [sentinel |-> FALSE, alleles |-> g]

find_base_state(xt, u) ==
    [i \in 1..Len(u) |->
        IF xt[i] = -1 THEN NoGenotype
        ELSE IF u[i] = "A" THEN Genotype(vector_A_ex[xt[i] + 1])
        ELSE IF u[i] = "C" THEN Genotype(vector_C_ex[xt[i] + 1])
        ELSE IF u[i] = "G" THEN Genotype(vector_G_ex[xt[i] + 1])
        ELSE IF u[i] = "T" THEN Genotype(vector_T_ex[xt[i] + 1])
        ELSE IF u[i] = "N" THEN Genotype(<<u[i]>>)
        ELSE IF u[i] = "-" THEN Genotype(vector_A_ex[xt[i] + 1])
        ELSE Genotype(<<u[i]>>)]

----------------------------------------------------------------------------
(* create_variant_calling_output.                                          *)
(* The text str(i) + "\t" + r + "\t" + a is the record [pos |-> i,         *)
(* ref |-> r, alt |-> a] with r and a lists of characters; a text without  *)
(* the two leading fields has pos = -1 and ref empty.                      *)

Text(i, r, a) == [pos |-> i, ref |-> r, alt |-> a]
\* variants = ""
NoText == Text(-1, <<>>, <<>>)
\* variants + c
TextPlus(v, c) == Text(v.pos, v.ref, Append(v.alt, c))

\* What one pass of the loop leaves, or the exception that ends it.
Passed(gc, v, vl) ==
    [error |-> "none", gap_counter |-> gc, variants |-> v, variant_list |-> vl]
Raises(e, gc, v, vl) ==
    [error |-> e, gap_counter |-> gc, variants |-> v, variant_list |-> vl]

\* The exception of g[k] for an entry g of base_states: -1 has no items, a
\* single character has only item 0.
AlleleError(g, k) ==
    IF g.sentinel THEN "TypeError"
    ELSE IF k >= Len(g.alleles) THEN "IndexError"
    ELSE "none"

\* s[k] for a Python index k >= -len(s); 0 when k is past the end.
PyAt(s, k) ==
    IF k >= Len(s) THEN 0 ELSE IF k >= 0 THEN k + 1 ELSE Len(s) + k + 1

\* Number of gap characters of u from (1-based) column k on.
RECURSIVE RunFrom(_, _)
RunFrom(u, k) ==
    IF k > Len(u) THEN 0
    ELSE IF u[k] = "-" THEN 1 + RunFrom(u, k + 1)
    ELSE 0

\* The pass ii = 0 of the loop over a gap run: the text built from the
\* first gap column c of the run (columns are Python indexes), where the
\* first test compares with the column after the run.  prev is ref[i - 1].
InsertionFirst(bs, i, c, run, prev, v) ==
    LET after == bs[c + run + 1]
        first == bs[c + 1]
    IN  IF AlleleError(after, 0) # "none"
        THEN [error |-> AlleleError(after, 0), variants |-> v]
        ELSE IF AlleleError(first, 1) # "none"
        THEN [error |-> AlleleError(first, 1), variants |-> v]
        ELSE LET a == first.alleles[1]
                 b == first.alleles[2]
             IN  [error |-> "none",
                  variants |->
                    IF after.alleles[1] = b
                    THEN Text(i, <<prev>>, <<prev, a>>)
                    ELSE IF a # b /\ a # "-" /\ b # "-"
                    THEN Text(i, <<prev>>, <<prev, a, ",", prev, b>>)
                    ELSE IF a # b /\ (a # "-" \/ b # "-")
                    THEN Text(i, <<prev>>, <<prev, IF a # "-" THEN a ELSE b>>)
                    ELSE v]

\* The passes ii..run-1 of the loop over a gap run: each appends the first
\* allele of its gap column to the text.
RECURSIVE InsertionRest(_, _, _, _, _)
InsertionRest(bs, c, ii, run, v) ==
    IF ii >= run THEN [error |-> "none", variants |-> v]
    ELSE IF AlleleError(bs[c + ii + 1], 0) # "none"
    THEN [error |-> AlleleError(bs[c + ii + 1], 0), variants |-> v]
    ELSE InsertionRest(bs, c, ii + 1, run,
                       TextPlus(v, bs[c + ii + 1].alleles[1]))

\* "Case: Gaps Insertions in updated reference".
InsertionPass(r, u, bs, i, gc, v, vl) ==
    LET c == i + gc
        run == RunFrom(u, c + 1)
        prev == r[PyAt(r, i - 1)]
    IN  IF c + run >= Len(u) THEN Raises("IndexError", gc, v, vl)
        ELSE LET one == InsertionFirst(bs, i, c, run, prev, v)
                 all == InsertionRest(bs, c, 1, run, one.variants)
             IN  IF one.error # "none" THEN Raises(one.error, gc, v, vl)
                 ELSE IF all.error # "none" THEN Raises(all.error, gc, v, vl)
                 ELSE Passed(gc + run, all.variants,
                             Append(vl, all.variants))

\* The alternate of a pair of two bases: "SNP is equal on both strings",
\* "SNP only on one string", "2 different SNPs".
SnpAlt(a, b, here) ==
    IF a = b THEN <<a>>
    ELSE IF a = here \/ b = here THEN <<IF a # here THEN a ELSE b>>
    ELSE <<a, ",", b>>

\* "Case: Deletion or SNP".
BasePass(r, u, bs, xt, i, gc, v, vl) ==
    LET c == i + gc
        g == bs[c + 1]
        here == u[c + 1]
        prev == r[PyAt(r, i - 1)]
        cur == r[i + 1]
        Record(t) == Passed(gc, t, Append(vl, t))
    IN  IF xt[c + 1] = 14 THEN Record(Text(i, <<prev, cur>>, <<prev>>))
        ELSE IF AlleleError(g, 0) # "none"
        THEN Raises(AlleleError(g, 0), gc, v, vl)
        ELSE IF g.alleles[1] # "-" /\ AlleleError(g, 1) # "none"
        THEN Raises(AlleleError(g, 1), gc, v, vl)
        ELSE LET a == g.alleles[1]
                 b == g.alleles[2]
             IN  IF a = "-" \/ b = "-"
                 THEN IF a = "-" /\ b = "-"
                      THEN Raises("TypeError", gc, v, vl)
                      ELSE Record(Text(i, <<prev, cur>>,
                               <<prev, IF a # "-" THEN a ELSE b, ",", prev>>))
                 ELSE Record(Text(i, <<cur>>, SnpAlt(a, b, here)))

\* A formatter that does not pass over the state "not valid".
SkipStatesWithout29 == {0, -1}
\* The states the formatter passes over: no mutation, not valid, no data.
SkipStates == {0, 29, -1}

\* One pass of the loop over the ungapped positions; i is Python's index.
VariantPass(r, u, bs, xt, i, gc, v, vl) ==
    LET c == i + gc
    IN  IF c >= Len(xt) \/ c >= Len(u) THEN Raises("IndexError", gc, v, vl)
        ELSE IF xt[c + 1] \in SkipStates
        THEN Passed(IF u[c + 1] = "-" THEN gc + 1 ELSE gc, v, vl)
        ELSE IF u[c + 1] = "-" THEN InsertionPass(r, u, bs, i, gc, v, vl)
        ELSE BasePass(r, u, bs, xt, i, gc, v, vl)

----------------------------------------------------------------------------
(* find_base_state and create_variant_calling_output: inputs and steps.    *)

\* Longest ungapped reference, and longest gap run inserted into it.
MaxRefLen == 2
MaxGapRun == 2

RefBases == {"A", "C", "G", "T", "N"}
\* The decoded states the inputs are drawn from: the three the formatter
\* passes over, a homozygous SNP, a heterozygous deletion, the homozygous
\* deletion and an insertion state.
VcStates == {0, 29, -1, 1, 7, 14, 19}

\* g[k] gap characters are inserted before reference position k (after the
\* last position for k = n), at no more than two places.
GapPatterns(n) ==
    { g \in [0..n -> 0..MaxGapRun] : Cardinality({k \in 0..n : g[k] > 0}) <= 2 }

RECURSIVE GappedFrom(_, _, _)
GappedFrom(r, g, k) ==
    IF k > Len(r) THEN <<>>
    ELSE Rep("-", g[k]) \o (IF k < Len(r) THEN <<r[k + 1]>> ELSE <<>>)
         \o GappedFrom(r, g, k + 1)
GappedRef(r, g) == GappedFrom(r, g, 0)

\* A path that alternates between the states a and b.
Alternating(n, a, b) == [c \in 1..n |-> IF c % 2 = 1 THEN a ELSE b]

VcInit ==
    /\ pc = "find_base_state"
    /\ ref \in EmSeqs(RefBases, 1, MaxRefLen)
    /\ \E g \in GapPatterns(Len(ref)) : upd_ref = GappedRef(ref, g)
    /\ \E a \in VcStates, b \in VcStates :
          vc_xtilde = Alternating(Len(upd_ref), a, b)
    /\ base_states = <<>>
    /\ vc_i = 0
    /\ gap_counter = 0
    /\ variants = NoText
    /\ variant_list = <<>>
    /\ vc_error = "none"
    /\ NonVcIdle

\* hidden_states = find_base_state(xtilde, updated_refseq)
FindBaseState ==
    /\ pc = "find_base_state"
    /\ base_states' = find_base_state(vc_xtilde, upd_ref)
    /\ pc' = "create_variant_calling_output"
    /\ UNCHANGED <<ref, upd_ref, vc_xtilde, vc_i, gap_counter, variants,
                   variant_list, vc_error>>
    /\ UNCHANGED nonVcVars

\* One pass of the loop of create_variant_calling_output.
VcPass ==
    /\ pc = "create_variant_calling_output"
    /\ vc_i < Len(ref)
    /\ LET p == VariantPass(ref, upd_ref, base_states, vc_xtilde, vc_i,
                            gap_counter, variants, variant_list)
       IN  /\ p.error = "none"
           /\ gap_counter' = p.gap_counter
           /\ variants' = p.variants
           /\ variant_list' = p.variant_list
    /\ vc_i' = vc_i + 1
    /\ UNCHANGED <<pc, ref, upd_ref, vc_xtilde, base_states, vc_error>>
    /\ UNCHANGED nonVcVars

\* A pass that raises: the call returns nothing.
VcRaise ==
    /\ pc = "create_variant_calling_output"
    /\ vc_i < Len(ref)
    /\ LET p == VariantPass(ref, upd_ref, base_states, vc_xtilde, vc_i,
                            gap_counter, variants, variant_list)
       IN  /\ p.error # "none"
           /\ vc_error' = p.error
    /\ pc' = "output_raised"
    /\ UNCHANGED <<ref, upd_ref, vc_xtilde, base_states, vc_i, gap_counter,
                   variants, variant_list>>
    /\ UNCHANGED nonVcVars

\* return variant_list
VcReturn ==
    /\ pc = "create_variant_calling_output"
    /\ vc_i = Len(ref)
    /\ pc' = "output_done"
    /\ UNCHANGED vcVars
    /\ UNCHANGED nonVcVars

VcNext ==
    \/ FindBaseState
    \/ VcPass
    \/ VcRaise
    \/ VcReturn

VcSpec == VcInit /\ [][VcNext]_vars

\* Every decoded state is 0, 29 or the no-data sentinel.
NothingCalled == \A c \in DOMAIN vc_xtilde : vc_xtilde[c] \in {0, 29, -1}

\* C8: when every decoded state is 0, 29 or the no-data sentinel,
\* find_base_state followed by create_variant_calling_output returns an
\* empty variant list, whatever the reference and its gap runs.
C8_NoVariantsWithoutCalls ==
    NothingCalled =>
        /\ pc # "output_raised"
        /\ pc \in {"create_variant_calling_output", "output_done"}
              => variant_list = <<>>

\* A gapped reference with a gap run, decoded to states 0, 29 and -1 only,
\* was formatted to the end.
C8_Witness ==
    /\ pc = "output_done"
    /\ NothingCalled
    /\ Len(upd_ref) > Len(ref)
    /\ \E c \in DOMAIN vc_xtilde : vc_xtilde[c] = 29
    /\ \E c \in DOMAIN vc_xtilde : vc_xtilde[c] # 29
    /\ variant_list = <<>>

\* The (1-based) column of the gapped reference u that holds the k-th
\* character of the ungapped reference, k counted from 1; Len(u) + 1 + j
\* when u holds only k - 1 - j of them.
RECURSIVE ColumnOf(_, _, _)
ColumnOf(u, k, from) ==
    IF from > Len(u) THEN from + k - 1
    ELSE IF u[from] # "-" THEN (IF k = 1 THEN from ELSE ColumnOf(u, k - 1, from + 1))
    ELSE ColumnOf(u, k, from + 1)

\* Column c (1-based) of u is the column of the k-th reference character or
\* a gap column of the run right before it.
AlignedWith(u, c, k) ==
    LET col == ColumnOf(u, k, 1)
    IN  /\ c <= col
        /\ col <= Len(u)
        /\ \A x \in c..(col - 1) : u[x] = "-"

\* C14: at the start of every pass of the loop, column i + gap_counter of
\* the gapped reference is the column of ref[i] or a gap column of the run
\* right before it, for gap runs of any length and whatever the decoded
\* states of the gap columns.
C14_GapCounterLockStep ==
    (pc = "create_variant_calling_output" /\ vc_i < Len(ref)) =>
        AlignedWith(upd_ref, vc_i + gap_counter + 1, vc_i + 1)

\* The columns of u that hold a reference base and decode to a state 1..14.
CalledBaseColumns(u, xt) ==
    {c \in DOMAIN u : u[c] # "-" /\ xt[c] \in 1..14}

\* The first columns of the maximal gap runs of u whose columns all decode
\* to states 15..28.
CalledGapRuns(u, xt) ==
    {c \in DOMAIN u :
        /\ u[c] = "-"
        /\ (c = 1 \/ u[c - 1] # "-")
        /\ \A x \in c..(c + RunFrom(u, c) - 1) : xt[x] \in 15..28}

\* Every reference-base column decodes to a base state, to 29 or to the
\* sentinel, and every gap column to an insertion state, to 29 or to the
\* sentinel, the columns of one gap run alike.
DecodedByKind(u, xt) ==
    /\ \A c \in DOMAIN u :
          IF u[c] = "-" THEN xt[c] \in (15..29) \cup {-1}
          ELSE xt[c] \in (0..14) \cup {29, -1}
    /\ \A c \in 1..(Len(u) - 1) :
          (u[c] = "-" /\ u[c + 1] = "-")
          => (xt[c] \in 15..28 <=> xt[c + 1] \in 15..28)

\* C15: the formatter returns exactly one record for every reference-base
\* column decoded to a state 1..14, a column right after a gap run included,
\* and one for every maximal gap run decoded to states 15..28; the other
\* columns yield none.
C15_OneRecordPerDifference ==
    (pc = "output_done" /\ DecodedByKind(upd_ref, vc_xtilde)) =>
        Len(variant_list) = Cardinality(CalledBaseColumns(upd_ref, vc_xtilde))
                            + Cardinality(CalledGapRuns(upd_ref, vc_xtilde))

\* The pass about to run meets a gap run: column i + gap_counter is a gap
\* column whose state the formatter does not pass over.
InsertionMet ==
    /\ pc = "create_variant_calling_output"
    /\ vc_i < Len(ref)
    /\ vc_i + gap_counter < Len(upd_ref)
    /\ upd_ref[vc_i + gap_counter + 1] = "-"
    /\ vc_xtilde[vc_i + gap_counter + 1] \notin {0, 29, -1}

\* The alternate of an insertion after the base prev, from the pairs of the
\* gap columns first..first+n-1 alone: one alternate when the alleles of
\* the first column are equal, two when they are two bases, the kept one
\* when one is a gap; then the first alleles of the other columns.
InsertionAlt(bs, first, n, prev) ==
    LET a == bs[first].alleles[1]
        b == bs[first].alleles[2]
        head == IF a = b THEN <<prev, a>>
                ELSE IF a # "-" /\ b # "-" THEN <<prev, a, ",", prev, b>>
                ELSE <<prev, IF a # "-" THEN a ELSE b>>
    IN  head \o [k \in 1..(n - 1) |-> bs[first + k].alleles[1]]

\* C16: a pass that meets a gap run of length n at ungapped index i >= 1
\* appends one record with position i, reference allele ref[i-1] and the
\* alternate built from ref[i-1] and the alleles of the n gap columns, its
\* form chosen from the pairs inside the run alone.
C16_InsertionRecord ==
    [][ (InsertionMet /\ vc_i >= 1 /\ vc_i' = vc_i + 1) =>
          LET c == vc_i + gap_counter + 1
              n == RunFrom(upd_ref, c)
          IN  variant_list' =
                Append(variant_list,
                       Text(vc_i, <<ref[vc_i]>>,
                            InsertionAlt(base_states, c, n, ref[vc_i]))) ]_vars

\* The pass about to run meets the column of ref[i], and it holds a base.
BaseMet ==
    /\ pc = "create_variant_calling_output"
    /\ vc_i < Len(ref)
    /\ ColumnOf(upd_ref, vc_i + 1, 1) = vc_i + gap_counter + 1
    /\ vc_i + gap_counter < Len(upd_ref)

\* The genotype of the column the pass about to run meets is a pair.
PairMet ==
    LET g == base_states[vc_i + gap_counter + 1]
    IN  ~ g.sentinel /\ Len(g.alleles) = 2

\* The ungapped position of the reference base in column c (1-based) of u:
\* the number of reference bases before it.
UngappedPosition(u, c) == Cardinality({x \in 1..(c - 1) : u[x] # "-"})

\* C17: for every column that holds a reference base r, at ungapped position
\* i, whose state is not 0 and whose pair (a, b) holds no gap, the returned
\* list holds the record (i, r, alt): alt is a when a = b, the allele that
\* differs from r when one of them is r, and "a,b" when both differ from r
\* and from each other.
C17_SnpRecord ==
    pc = "output_done" =>
        \A c \in DOMAIN upd_ref :
            LET g == base_states[c]
            IN  ( /\ upd_ref[c] # "-"
                  /\ vc_xtilde[c] # 0
                  /\ ~ g.sentinel
                  /\ Len(g.alleles) = 2
                  /\ "-" \notin {g.alleles[1], g.alleles[2]} )
                => LET a == g.alleles[1]
                       b == g.alleles[2]
                       r == upd_ref[c]
                       i == UngappedPosition(upd_ref, c)
                       alt == IF a = b THEN <<a>>
                              ELSE IF a = r THEN <<b>>
                              ELSE IF b = r THEN <<a>>
                              ELSE <<a, ",", b>>
                   IN  \E k \in DOMAIN variant_list :
                          variant_list[k] = Text(i, <<r>>, alt)

\* C18: a pass that meets the column of ref[i] appends, for state 14, the
\* record (i, ref[i-1] ref[i], ref[i-1]) and, for a pair with exactly one
\* gap allele, the record (i, ref[i-1] ref[i], ref[i-1] + kept allele ","
\* ref[i-1]), the two bases being those at positions i-1 and i of the
\* ungapped reference.
C18_DeletionRecord ==
    [][ ( /\ BaseMet
          /\ vc_xtilde[vc_i + gap_counter + 1] \notin {0, 29, -1}
          /\ \/ vc_xtilde[vc_i + gap_counter + 1] = 14
             \/ /\ PairMet
                /\ Cardinality({k \in 1..2 :
                      base_states[vc_i + gap_counter + 1].alleles[k] = "-"}) = 1 )
        => LET g == base_states[vc_i + gap_counter + 1].alleles
               kept == IF g[1] # "-" THEN g[1] ELSE g[2]
           IN  /\ vc_i >= 1
               /\ variant_list' =
                    Append(variant_list,
                      IF vc_xtilde[vc_i + gap_counter + 1] = 14
                      THEN Text(vc_i, <<ref[vc_i], ref[vc_i + 1]>>, <<ref[vc_i]>>)
                      ELSE Text(vc_i, <<ref[vc_i], ref[vc_i + 1]>>,
                                <<ref[vc_i], kept, ",", ref[vc_i]>>))
      ]_vars

\* The pair of the first column of the gap run the pass about to run meets
\* fits none of the three cases of the insertion branch ("Error critical in
\* variant output"): after is the genotype of the column behind the run.
Unclassified ==
    LET c == vc_i + gap_counter + 1
        n == RunFrom(upd_ref, c)
    IN  /\ c + n <= Len(upd_ref)
        /\ AlleleError(base_states[c + n], 0) = "none"
        /\ AlleleError(base_states[c], 1) = "none"
        /\ LET a == base_states[c].alleles[1]
               b == base_states[c].alleles[2]
           IN  /\ base_states[c + n].alleles[1] # b
               /\ ~ (a # b /\ a # "-" /\ b # "-")
               /\ ~ (a # b /\ (a # "-" \/ b # "-"))

\* C19: when the pair of an insertion fits none of the cases, the formatter
\* stops there: the pass appends nothing (no empty text, no text of an
\* earlier record) and the call ends with an error.
C19_UnclassifiedAborts ==
    [][ (InsertionMet /\ Unclassified) =>
          /\ variant_list' = variant_list
          /\ pc' = "output_raised" ]_vars

----------------------------------------------------------------------------
(* find_base_state alone, on every decoded state.                          *)

\* Longest gapped reference resolved.
MaxResolveLen == 1

\* find_base_state on every gapped reference over A, C, G, T, N and the gap
\* and every path over the sentinel and the states 0..29.
ResolveInit ==
    /\ pc = "find_base_state"
    /\ upd_ref \in EmSeqs(RefBases \cup {"-"}, 1, MaxResolveLen)
    /\ ref = SelectSeq(upd_ref, LAMBDA x : x # "-")
    /\ vc_xtilde \in [1..Len(upd_ref) -> (-1)..29]
    /\ base_states = <<>>
    /\ vc_i = 0
    /\ gap_counter = 0
    /\ variants = NoText
    /\ variant_list = <<>>
    /\ vc_error = "none"
    /\ NonVcIdle

ResolveNext == FindBaseState

ResolveSpec == ResolveInit /\ [][ResolveNext]_vars

\* The 15-entry table of a reference base.
TableOf(r) ==
    IF r = "A" THEN vector_A ELSE IF r = "C" THEN vector_C
    ELSE IF r = "G" THEN vector_G ELSE vector_T

\* C21: find_base_state gives a sentinel state the sentinel genotype; on a
\* base A, C, G, T it gives state s < 15 entry s of the base's own table and
\* state s >= 15 entry s - 15 of the table of A; on a gap it gives entry
\* s mod 15 of the table of A; so state 0 on base r is (r, r) and state 14
\* is (gap, gap).
C21_GenotypeTables ==
    pc # "find_base_state" =>
        /\ Len(base_states) = Len(upd_ref)
        /\ \A c \in DOMAIN upd_ref :
              LET s == vc_xtilde[c]
                  r == upd_ref[c]
              IN  IF s = -1 THEN base_states[c].sentinel
                  ELSE IF r \in {"A", "C", "G", "T"}
                  THEN /\ ~ base_states[c].sentinel
                       /\ base_states[c].alleles =
                             IF s < 15 THEN TableOf(r)[s + 1]
                             ELSE vector_A[s - 15 + 1]
                       /\ s = 0 => base_states[c].alleles = <<r, r>>
                       /\ s = 14 => base_states[c].alleles = <<"-", "-">>
                  ELSE IF r = "-"
                  THEN /\ ~ base_states[c].sentinel
                       /\ base_states[c].alleles = vector_A[(s % 15) + 1]
                  ELSE TRUE

\* State 19 on the base C was resolved to entry 4 of the table of A.
C21_Witness ==
    /\ pc = "create_variant_calling_output"
    /\ upd_ref = <<"C">>
    /\ vc_xtilde = <<19>>
    /\ base_states = <<Genotype(<<"A", "C">>)>>

\* The pairs of a 15-entry genotype table that hold exactly one gap, as
\* Python indices.
SingleGapStates(vector) ==
    { s \in 0..14 :
        (vector[s + 1][1] = "-") # (vector[s + 1][2] = "-") }

\* C24: in the returned matrix rows 7, 10, 12 and 13 are the elementwise
\* mean of the SNP row (row 1) and the homozygous-deletion row (row 14), rows
\* 2..6, 8, 9 and 11 equal row 1, rows 16..28 equal the insertion row (row
\* 15), and in all four genotype tables states 7, 10, 12 and 13 are exactly
\* the states of 0..14 whose pair holds one gap.  Row r of the code is
\* trans_matrix[r + 1].
C24_SingleGapRowsAreMeans ==
    pc = "transition_done" =>
        /\ \A r \in {7, 10, 12, 13} :
              /\ DOMAIN trans_matrix[r + 1] = 1..30
              /\ \A j \in 1..30 :
                    trans_matrix[r + 1][j] =
                        RDivInt(RAdd(trans_matrix[2][j], trans_matrix[15][j]), 2)
        /\ \A r \in {2, 3, 4, 5, 6, 8, 9, 11} : trans_matrix[r + 1] = trans_matrix[2]
        /\ \A r \in 16..28 : trans_matrix[r + 1] = trans_matrix[16]
        /\ \A vector \in {vector_A, vector_C, vector_G, vector_T} :
              SingleGapStates(vector) = {7, 10, 12, 13}

\* A matrix whose SNP row and homozygous-deletion row differ, so that the
\* mean is neither of the two.
C24_Witness ==
    /\ pc = "transition_done"
    /\ trans_matrix[2] # trans_matrix[15]
    /\ trans_matrix[8] # trans_matrix[2]
    /\ trans_matrix[8] # trans_matrix[15]
    /\ trans_matrix[17] = trans_matrix[16]

----------------------------------------------------------------------------
(* get_pileup and build_emissionmatrix.                                    *)
(* The qualities of a read are integers, the placeholder '-' being        *)
(* GapQual; the qualities the emissions are computed from are rationals.   *)
(* An entry of an emission vector is "NaN", the number 0 of the shortcut,  *)
(* or a sum with one term per pileup base: the term names its case and the *)
(* quality q it is computed from,                                          *)
(*   "both":    log10(1 - 10^(-q/10))                                      *)
(*   "neither": -q/10 + log10(0.25)                                        *)
(*   "one":     log10(0.5 * (1 - 10^(-q/10)) + 0.125 * 10^(-q/10)).        *)

\* The reads that cover position p (Python's index), in the order of sam.
Covering(samfile, p) ==
    SelectSeq(samfile, LAMBDA read :
        read.start <= p /\ read.start + Len(read.seq) > p)

get_pileup(samfile, p) ==
    LET reads == Covering(samfile, p)
    IN  [bases |-> [k \in DOMAIN reads |-> reads[k].seq[p - reads[k].start + 1]],
         qualities |->
             [k \in DOMAIN reads |-> reads[k].qual[p - reads[k].start + 1]],
         mapping_qualities |-> [k \in DOMAIN reads |-> reads[k].mapq]]

\* len(pileup) < 5 or upd_reference[i] == "N"
ColumnSkippedIgnoringN(bases, ch) == Len(bases) < 5
ColumnSkipped(bases, ch) == Len(bases) < 5 \/ ch = "N"

\* all(elem == pileup_qual[0] for elem in pileup_qual) and [...]: the list
\* after "and" is not empty, hence true.
AllEqual(qual) == \A y \in DOMAIN qual : qual[y] = qual[1]

\* temp_val / tempt_counter
MeanOverAll(qual) ==
    LET real == SelectSeq(qual, LAMBDA q : q # GapQual)
    IN  Rat(ISumRange(real, 1, Len(real)), Len(qual))
MeanOfReal(qual) ==
    LET real == SelectSeq(qual, LAMBDA q : q # GapQual)
    IN  Rat(ISumRange(real, 1, Len(real)), Len(real))

\* "Change quality score": the qualities the emissions are computed from.
RepairedQual(qual, mapq) ==
    IF AllEqual(qual) THEN [y \in DOMAIN qual |-> Rat(mapq[y], 4)]
    ELSE IF \E y \in DOMAIN qual : qual[y] = GapQual
    THEN [y \in DOMAIN qual |->
             IF qual[y] = GapQual THEN MeanOfReal(qual) ELSE RInt(qual[y])]
    ELSE [y \in DOMAIN qual |-> RInt(qual[y])]

NaNEntry == [kind |-> "NaN", terms |-> <<>>]
ZeroEntry == [kind |-> "zero", terms |-> <<>>]

\* One state of one column: filter is the pair the two filters test and
\* class the pair the three cases test.
EmissionEntry(filter, class, bases, qual) ==
    IF /\ filter = <<"-", "-">>
       /\ 10 * Count(bases, "-") >= 8 * Len(bases)
    THEN ZeroEntry
    ELSE IF \A sub \in DOMAIN bases :
               filter[1] # bases[sub] /\ filter[2] # bases[sub]
    THEN NaNEntry
    ELSE [kind |-> "val",
          terms |-> [subi \in DOMAIN bases |->
              [case |-> IF class[1] = bases[subi] /\ class[2] = bases[subi]
                        THEN "both"
                        ELSE IF bases[subi] # class[1] /\ bases[subi] # class[2]
                        THEN "neither"
                        ELSE "one",
               q |-> qual[subi]]]]

\* The local name vector before its first assignment.
Unbound == <<>>

\* Every column is scored with the table of A.
VectorOfGap(ch, vector) == vector_A

\* vector after the if / elif chain of the base branch: the table of the
\* base for A, C, G, T; for any other character the else branch prints an
\* error and leaves vector as the last column that computed emissions set
\* it.
VectorOf(ch, vector) ==
    IF ch = "A" THEN vector_A
    ELSE IF ch = "C" THEN vector_C
    ELSE IF ch = "G" THEN vector_G
    ELSE IF ch = "T" THEN vector_T
    ELSE vector

\* vector as the sub-loop over the genotypes of a column that is not
\* skipped reads it: the gap branch assigns vector_A.
VectorAfter(ch, vector) ==
    IF ch = "-" THEN vector_A ELSE VectorOf(ch, vector)

\* The 30 entries of a column that is not skipped, vector being bound; ii
\* is Python's index.
EmissionColumn(ch, vector, bases, qual) ==
    IF ch = "-"
    THEN [j \in 1..30 |->
            LET ii == j - 1
            IN  IF ii < 15 THEN NaNEntry
                ELSE EmissionEntry(vector[ii - 15 + 1], vector[ii - 15 + 1],
                                   bases, qual)]
    ELSE [j \in 1..30 |->
            LET ii == j - 1
            IN  IF ii < 15
                THEN EmissionEntry(vector[ii + 1], vector[PyAt(vector, ii - 15)],
                                   bases, qual)
                ELSE NaNEntry]

\* ematrix.append(-1)
NoDataEntry == [nodata |-> TRUE, entries |-> <<>>]

----------------------------------------------------------------------------
(* build_emissionmatrix: inputs and steps.                                 *)

\* Longest gapped reference handed to build_emissionmatrix.
MaxEmLen == 2

GappedBases == {"A", "C", "G", "T", "N", "-"}
\* A character of a reference that is none of them.
OtherBases == {"X"}

\* One-base reads [base, quality, mapping quality] that cover one column.
PileFew == << <<"A", 20, 60>>, <<"A", 20, 60>>, <<"A", 20, 60>>, <<"A", 20, 60>> >>
PileMatch ==
    << <<"A", 20, 60>>, <<"A", 30, 60>>, <<"A", 20, 40>>, <<"A", 30, 60>>,
       <<"A", 20, 60>> >>
PileEqual ==
    << <<"C", 20, 60>>, <<"C", 20, 60>>, <<"C", 20, 40>>, <<"C", 20, 60>>,
       <<"C", 20, 60>> >>
PileHet ==
    << <<"A", 30, 60>>, <<"A", 30, 60>>, <<"A", 30, 60>>, <<"G", 20, 40>>,
       <<"G", 20, 40>>, <<"G", 20, 40>> >>
\* Scenario D: one read of six carries a deletion gap, the others G at 20.
PileScenarioD ==
    << <<"G", 20, 60>>, <<"G", 20, 60>>, <<"-", GapQual, 60>>, <<"G", 20, 60>>,
       <<"G", 20, 60>>, <<"G", 20, 60>> >>
PileGaps ==
    << <<"-", GapQual, 60>>, <<"-", GapQual, 40>>, <<"-", GapQual, 60>>,
       <<"-", GapQual, 40>>, <<"-", GapQual, 60>> >>
PileMostGaps ==
    << <<"-", GapQual, 60>>, <<"-", GapQual, 60>>, <<"T", 30, 40>>,
       <<"-", GapQual, 60>>, <<"-", GapQual, 60>> >>
Piles ==
    << PileFew, PileMatch, PileEqual, PileHet, PileScenarioD, PileGaps,
       PileMostGaps >>

\* The reads of pile number k, placed at column c (Python's index).
PileReads(k, c) ==
    [y \in DOMAIN Piles[k] |->
        [start |-> c, name |-> <<10 * c + y>>, seq |-> <<Piles[k][y][1]>>,
         cigar |-> NoCigar, mapq |-> Piles[k][y][3],
         qual |-> <<Piles[k][y][2]>>]]

\* Column c takes pile number k + c (cyclically).
RECURSIVE PiledReads(_, _, _)
PiledReads(k, c, n) ==
    IF c >= n THEN <<>>
    ELSE PileReads(((k + c - 1) % Len(Piles)) + 1, c) \o PiledReads(k, c + 1, n)

\* A read that covers all n columns.
LongRead(n) ==
    [start |-> 0, name |-> <<0>>, seq |-> Rep("A", n), cigar |-> NoCigar,
     mapq |-> 60, qual |-> Rep(30, n)]

EmInit ==
    /\ pc = "build_emissionmatrix"
    /\ upd_reference \in EmSeqs(GappedBases \cup OtherBases, 1, MaxEmLen)
    /\ \E k \in DOMAIN Piles, long \in BOOLEAN :
          upd_sam_em = (IF long THEN <<LongRead(Len(upd_reference))>> ELSE <<>>)
                       \o PiledReads(k, 0, Len(upd_reference))
    /\ em_i = 0
    /\ pileup = <<>>
    /\ pileup_qual = <<>>
    /\ em_vector = Unbound
    /\ ematrix = <<>>
    /\ NonEmIdle

\* A pass of the loop over the columns that appends the sentinel.
EmSkipColumn ==
    /\ pc = "build_emissionmatrix"
    /\ em_i < Len(upd_reference)
    /\ LET p == get_pileup(upd_sam_em, em_i)
       IN  /\ ColumnSkipped(p.bases, upd_reference[em_i + 1])
           /\ pileup' = p.bases
           /\ pileup_qual' = [y \in DOMAIN p.qualities |-> RInt(p.qualities[y])]
           /\ ematrix' = Append(ematrix, NoDataEntry)
    /\ em_i' = em_i + 1
    /\ UNCHANGED <<pc, upd_sam_em, upd_reference, em_vector>>
    /\ UNCHANGED nonEmVars

\* A pass of the loop over the columns that appends a vector.
EmBuildColumn ==
    /\ pc = "build_emissionmatrix"
    /\ em_i < Len(upd_reference)
    /\ LET p == get_pileup(upd_sam_em, em_i)
           q == RepairedQual(p.qualities, p.mapping_qualities)
           vector == VectorAfter(upd_reference[em_i + 1], em_vector)
       IN  /\ ~ ColumnSkipped(p.bases, upd_reference[em_i + 1])
           /\ vector # Unbound
           /\ pileup' = p.bases
           /\ pileup_qual' = q
           /\ em_vector' = vector
           /\ ematrix' = Append(ematrix,
                  [nodata |-> FALSE,
                   entries |-> EmissionColumn(upd_reference[em_i + 1], vector,
                                              p.bases, q)])
    /\ em_i' = em_i + 1
    /\ UNCHANGED <<pc, upd_sam_em, upd_reference>>
    /\ UNCHANGED nonEmVars

\* A pass over a column that is not skipped and whose character is none of
\* A, C, G, T, -, before any column computed emissions: the sub-loop reads
\* vector[ii] while vector is unbound, and the call ends with
\* UnboundLocalError.
EmUnboundVector ==
    /\ pc = "build_emissionmatrix"
    /\ em_i < Len(upd_reference)
    /\ LET p == get_pileup(upd_sam_em, em_i)
           q == RepairedQual(p.qualities, p.mapping_qualities)
       IN  /\ ~ ColumnSkipped(p.bases, upd_reference[em_i + 1])
           /\ VectorAfter(upd_reference[em_i + 1], em_vector) = Unbound
           /\ pileup' = p.bases
           /\ pileup_qual' = q
    /\ pc' = "emission_raised"
    /\ UNCHANGED <<upd_sam_em, upd_reference, em_i, em_vector, ematrix>>
    /\ UNCHANGED nonEmVars

\* return ematrix
EmReturn ==
    /\ pc = "build_emissionmatrix"
    /\ em_i = Len(upd_reference)
    /\ pc' = "emission_done"
    /\ UNCHANGED emVars
    /\ UNCHANGED nonEmVars

EmNext ==
    \/ EmSkipColumn
    \/ EmBuildColumn
    \/ EmUnboundVector
    \/ EmReturn

EmSpec == EmInit /\ [][EmNext]_vars

----------------------------------------------------------------------------
(* Properties of build_emissionmatrix.                                     *)

\* The qualities get_pileup handed to the pass just made (column em_i - 1).
RawQual == get_pileup(upd_sam_em, em_i - 1).qualities
\* The pass just made computed emissions.
ColumnBuilt ==
    /\ pc # "emission_raised"
    /\ em_i >= 1 /\ Len(ematrix) = em_i /\ ~ ematrix[em_i].nodata
\* Some but not all qualities of the column are the placeholder.
SomeGapQual ==
    /\ \E y \in DOMAIN RawQual : RawQual[y] = GapQual
    /\ \E y \in DOMAIN RawQual : RawQual[y] # GapQual
\* The column of Scenario D: six reads, one placeholder, the others 20.
IsScenarioD ==
    /\ Len(RawQual) = 6
    /\ Cardinality({y \in DOMAIN RawQual : RawQual[y] = GapQual}) = 1
    /\ Cardinality({y \in DOMAIN RawQual : RawQual[y] = 20}) = 5

\* C9: in a column with at least 5 reads whose emissions are computed, when
\* some but not all qualities are the gap placeholder, each placeholder is
\* replaced by the mean of the other qualities of the column and the other
\* qualities are unchanged; in Scenario D the gap position gets 20.
C9_MeanOfRealQualities ==
    (ColumnBuilt /\ SomeGapQual) =>
        LET real == SelectSeq(RawQual, LAMBDA q : q # GapQual)
        IN  /\ Len(RawQual) >= 5
            /\ Len(pileup_qual) = Len(RawQual)
            /\ \A y \in DOMAIN RawQual :
                  IF RawQual[y] = GapQual
                  THEN pileup_qual[y] = Rat(SumSeq(real), Len(real))
                  ELSE pileup_qual[y] = RInt(RawQual[y])
            /\ IsScenarioD =>
                  \A y \in DOMAIN RawQual :
                      RawQual[y] = GapQual => pileup_qual[y] = RInt(20)

\* The column of Scenario D was repaired: the gap position holds 20, which
\* is not a quarter of the mapping quality of any read.
C9_Witness ==
    /\ ColumnBuilt
    /\ SomeGapQual
    /\ IsScenarioD
    /\ \E y \in DOMAIN RawQual : RawQual[y] = GapQual /\ pileup_qual[y] = RInt(20)
    /\ \A y \in DOMAIN RawQual :
          Rat(get_pileup(upd_sam_em, em_i - 1).mapping_qualities[y], 4) # RInt(20)

\* Number of reads that cover column c (Python's index).
Coverage(c) ==
    Cardinality({k \in DOMAIN upd_sam_em :
        /\ upd_sam_em[k].start <= c
        /\ c < upd_sam_em[k].start + Len(upd_sam_em[k].seq)})

\* C10: build_emissionmatrix returns one entry per gapped coordinate; the
\* entry is the sentinel exactly when fewer than 5 reads cover the column or
\* the reference base is N; otherwise it has exactly 30 entries, states 0..14
\* undefined at a gap of the reference and states 15..29 undefined at a base.
\* The call returns for every reference over A, C, G, T, N and the gap.
C10_ColumnsOfEmissionMatrix ==
    /\ pc = "emission_raised" => \E c \in DOMAIN upd_reference :
                                    upd_reference[c] \notin GappedBases
    /\ pc = "emission_done" =>
        /\ Len(ematrix) = Len(upd_reference)
        /\ \A c \in DOMAIN ematrix :
              /\ ematrix[c].nodata
                    <=> (Coverage(c - 1) < 5 \/ upd_reference[c] = "N")
              /\ ~ ematrix[c].nodata =>
                    /\ DOMAIN ematrix[c].entries = 1..30
                    /\ upd_reference[c] = "-" =>
                          \A j \in 1..15 : ematrix[c].entries[j].kind = "NaN"
                    /\ upd_reference[c] # "-" =>
                          \A j \in 16..30 : ematrix[c].entries[j].kind = "NaN"

\* A matrix with a sentinel at an N column that five or more reads cover,
\* and with a vector that has defined entries.
C10_Witness ==
    /\ pc = "emission_done"
    /\ \E c \in DOMAIN ematrix :
          /\ upd_reference[c] = "N" /\ Coverage(c - 1) >= 5 /\ ematrix[c].nodata
    /\ \E c \in DOMAIN ematrix :
          /\ ~ ematrix[c].nodata
          /\ \E j \in 1..30 : ematrix[c].entries[j].kind = "val"

\* C22: the qualities of a column are replaced by mapping_quality / 4 only
\* when every one of them is the gap placeholder; a column with at least 5
\* reads whose qualities are all real numbers, all equal ones included,
\* keeps them for the emission computation.
C22_RealQualitiesKept ==
    (ColumnBuilt /\ \A y \in DOMAIN RawQual : RawQual[y] # GapQual) =>
        /\ Len(pileup_qual) = Len(RawQual)
        /\ \A y \in DOMAIN RawQual : pileup_qual[y] = RInt(RawQual[y])

\* The allele pair of state s (0..29) at reference character ch: entry s of
\* the table of the base for s < 15, entry s - 15 of the table of A at a gap.
PairOfState(ch, s) ==
    IF ch = "-" THEN vector_A[s - 15 + 1] ELSE TableOf(ch)[s + 1]

\* The entry e of a state with allele pair pr, in a column with pileup
\* bases: the shortcut, the no-matching-base check and the case of every
\* pileup base follow pr.
EntryFollowsPair(e, pr, bases) ==
    LET shortcut == /\ pr = <<"-", "-">>
                    /\ 10 * Count(bases, "-") >= 8 * Len(bases)
        nomatch == \A k \in DOMAIN bases : bases[k] # pr[1] /\ bases[k] # pr[2]
    IN  /\ e.kind = "zero" <=> shortcut
        /\ e.kind = "NaN" <=> (~ shortcut /\ nomatch)
        /\ e.kind = "val" =>
              /\ Len(e.terms) = Len(bases)
              /\ \A k \in DOMAIN bases :
                    e.terms[k].case =
                        IF bases[k] = pr[1] /\ bases[k] = pr[2] THEN "both"
                        ELSE IF bases[k] = pr[1] \/ bases[k] = pr[2] THEN "one"
                        ELSE "neither"

\* C23: in a column of a reference base every state 0..14 is scored with
\* entry s of the table of that base, in the shortcut, in the
\* no-matching-base check and in the classification of the pileup bases
\* alike; in a gap column every state 15..29 is scored with entry s - 15 of
\* the table of A; a state is undefined exactly when no pileup base equals
\* an allele of its pair and the shortcut does not apply.
C23_OnePairPerState ==
    \A c \in DOMAIN ematrix :
        ~ ematrix[c].nodata =>
            LET ch == upd_reference[c]
                bases == get_pileup(upd_sam_em, c - 1).bases
            IN  ch \in GappedBases =>
                    \A s \in (IF ch = "-" THEN 15..29 ELSE 0..14) :
                        EntryFollowsPair(ematrix[c].entries[s + 1],
                                         PairOfState(ch, s), bases)

\* A column of the base G with A and G in the pileup was scored: state 4,
\* the pair (A, G), matches every base once; state 1, (A, A), matches the A
\* twice and the G not; state 2, (C, C), is undefined.
C23_Witness ==
    /\ pc = "emission_done"
    /\ \E c \in DOMAIN ematrix :
          /\ upd_reference[c] = "G"
          /\ ~ ematrix[c].nodata
          /\ ematrix[c].entries[5].kind = "val"
          /\ \A k \in DOMAIN ematrix[c].entries[5].terms :
                ematrix[c].entries[5].terms[k].case = "one"
          /\ ematrix[c].entries[2].kind = "val"
          /\ \E k \in DOMAIN ematrix[c].entries[2].terms :
                ematrix[c].entries[2].terms[k].case = "both"
          /\ \E k \in DOMAIN ematrix[c].entries[2].terms :
                ematrix[c].entries[2].terms[k].case = "neither"
          /\ ematrix[c].entries[3].kind = "NaN"

====
